---- MODULE Spec2Model ----
(***************************************************************************)
(* Tempesta TLS: server side handshake state machine (tls/tls_srv.c).      *)
(*                                                                         *)
(* The connection's TlsCtx is the record `tls`; one action stands for one  *)
(* call of ttls_handshake_server_step() made by the record layer for one   *)
(* chunk of one inbound handshake message.                                 *)
(***************************************************************************)
EXTENDS Integers, Sequences, FiniteSets, TLC

VARIABLES
    conf,      \* the server configuration (TlsCfg), fixed for a connection
    tls,       \* TlsCtx: state, handshake context hs, session sess, io_in;
               \* r is the return value of the last step, wire what was
               \* handed to the record layer
    hello,     \* body of the ClientHello the peer sends
    inmsg,     \* the inbound message in flight: type, body, bytes delivered
               \* (pos), its number (seq), and whether every call so far
               \* got a single byte of it (one_byte)
    inp,       \* the outcomes of the external calls of the last step
    closed,    \* the caller tore the connection down after a fatal return
    mpi        \* the MPI engine (tls/bignum.c): the operands and the
               \* destinations of the call made, and what it returned

vars == <<conf, tls, hello, inmsg, inp, closed, mpi>>

\* the MPI engine while the handshake state machine alone is looked at
NoMpi == [op |-> "none"]

(***************************************************************************)
(* Bounds of the model.                                                    *)
(***************************************************************************)
MaxSuites == 3      \* longest cipher-suite list a modelled ClientHello has
MaxExts == 1        \* most extensions a ClientHello has besides sig_algs
MaxBody == 3        \* longest body of a modelled message after ClientHello

(***************************************************************************)
(* Program constants.                                                      *)
(***************************************************************************)
TTLS_MAJOR_VERSION_3 == 3
TTLS_MINOR_VERSION_3 == 3
TTLS_MINOR_VERSION_4 == 4
HS_RND_SZ == 32                 \* client random
SESS_ID_SZ == 32                \* sizeof(tls->sess.id)
COMPR_MAX == 16
CSS_MAX == 2                    \* entries of hs->css
HS_RBUF_SZ == 24                \* sizeof(hs->ext), the extension scratch
TTLS_COMPRESS_NULL == 0
TTLS_FALLBACK_SCSV_VALUE == 22016        \* 0x5600
TTLS_EMPTY_RENEGOTIATION_INFO == 255     \* 0x00FF
TTLS_TLS_EXT_SERVERNAME == 0
TTLS_TLS_EXT_SUPPORTED_ELLIPTIC_CURVES == 10
TTLS_TLS_EXT_SUPPORTED_POINT_FORMATS == 11
TTLS_TLS_EXT_SIG_ALG == 13
TTLS_TLS_EXT_ALPN == 16
TTLS_TLS_EXT_EXTENDED_MASTER_SECRET == 23
TTLS_TLS_EXT_SESSION_TICKET == 35
TTLS_TLS_EXT_RENEGOTIATION_INFO == 65281
TLS_RSA_WITH_AES_128_GCM_SHA256 == 156             \* 0x009C
TLS_DHE_RSA_WITH_AES_128_GCM_SHA256 == 158         \* 0x009E
TLS_ECDHE_RSA_WITH_AES_128_GCM_SHA256 == 49199     \* 0xC02F
TLS_ECDHE_ECDSA_WITH_AES_128_GCM_SHA256 == 49195   \* 0xC02B
MAX_SKB_FRAGS == 17

(***************************************************************************)
(* Small helpers.                                                          *)
(***************************************************************************)
Min(a, b) == IF a < b THEN a ELSE b

Rep(n, v) == [i \in 1..n |-> v]

\* memcpy(dst + off, src, Len(src)) into a fixed array, 0-based offset
MemCpy(dst, off, src) ==
    [i \in 1..Len(dst) |->
        IF i > off /\ i <= off + Len(src) THEN src[i - off] ELSE dst[i]]

U16(n) == <<n \div 256, n % 256>>

RECURSIVE Flat(_)
Flat(ss) == IF ss = <<>> THEN <<>> ELSE Head(ss) \o Flat(Tail(ss))

RECURSIVE SeqsUpTo(_, _)
\* all sequences over S of length 0..n
SeqsUpTo(S, n) ==
    IF n = 0 THEN {<<>>}
    ELSE LET R == SeqsUpTo(S, n - 1)
         IN  R \cup {Append(r, x) : r \in {q \in R : Len(q) = n - 1}, x \in S}

(***************************************************************************)
(* Return values.  T_OK is 0; everything but T_OK and T_POSTPONE is fatal. *)
(***************************************************************************)
T_OK == "T_OK"
T_POSTPONE == "T_POSTPONE"
TTLS_ERR_BAD_HS_CLIENT_HELLO == "TTLS_ERR_BAD_HS_CLIENT_HELLO"
TTLS_ERR_BAD_HS_PROTOCOL_VERSION == "TTLS_ERR_BAD_HS_PROTOCOL_VERSION"
TTLS_ERR_INTERNAL_ERROR == "TTLS_ERR_INTERNAL_ERROR"
EINVAL == "-EINVAL"
ENOMEM == "-ENOMEM"

Fatal(r) == r # T_OK /\ r # T_POSTPONE

\* ttls_send_alert(tls, TTLS_ALERT_LEVEL_FATAL, msg): the alert goes out
Alert(t, msg) == [t EXCEPT !.alerts = Append(@, msg)]

Ret(t, r) == [t EXCEPT !.r = r]

\* the common "send a fatal alert and fail the ClientHello" exit
BadHello(t, msg) == Ret(Alert(t, msg), TTLS_ERR_BAD_HS_CLIENT_HELLO)

\* buf[i] of a C buffer held as a sequence (C indices start at 0)
B(buf, i) == buf[i + 1]

(***************************************************************************)
(* External tables (ciphersuites, curves, hashes): the parts of them the   *)
(* handshake reads.                                                        *)
(***************************************************************************)
TTLS_PK_NONE == "PK_NONE"
TTLS_PK_RSA == "PK_RSA"
TTLS_PK_ECDSA == "PK_ECDSA"
TTLS_MD_NONE == 0
TTLS_ECP_DP_NONE == 0
TTLS_ECP_DP_MAX == 12
TTLS_ECP_PF_UNCOMPRESSED == 0
TTLS_ECP_PF_COMPRESSED == 1

\* ttls_pk_alg_from_sig(): SignatureAlgorithm 1 is rsa, 3 is ecdsa
ttls_pk_alg_from_sig(sig) ==
    IF sig = 1 THEN TTLS_PK_RSA ELSE IF sig = 3 THEN TTLS_PK_ECDSA
    ELSE TTLS_PK_NONE

\* ttls_md_alg_from_hash(): HashAlgorithm sha256(4), sha384(5), sha512(6)
ttls_md_alg_from_hash(h) == IF h \in {4, 5, 6} THEN h ELSE TTLS_MD_NONE

\* ttls_sig_hash_set_add(): the first hash offered for a signature kind stays
ttls_sig_hash_set_add(set, sig, md) ==
    IF set[sig] = TTLS_MD_NONE THEN [set EXCEPT ![sig] = md] ELSE set

\* ttls_sig_hash_set_find()
ttls_sig_hash_set_find(set, sig) == set[sig]

\* ttls_ecp_curve_info_from_tls_id(): NamedCurve 23..28 to the group id 1..6
ttls_ecp_curve_info_from_tls_id(id) ==
    IF id \in 23..28 THEN id - 22 ELSE TTLS_ECP_DP_NONE

(***************************************************************************)
(* ClientHello extension handlers.  buf is the scratch hs->ext, len the    *)
(* extension's size; each returns the context with the result in r.        *)
(***************************************************************************)
RECURSIVE sni_loop_any_name(_, _, _, _)
\* the loop with the result of f_sni() dropped
sni_loop_any_name(t, buf, p, size) ==
    IF size = 0 THEN Ret(t, T_OK)
    ELSE LET hostname_len == B(buf, p + 1) * 256 + B(buf, p + 2)
         IN  IF hostname_len + 3 > size THEN BadHello(t, "decode_error")
             ELSE IF conf.f_sni /\ B(buf, p) = 0
             THEN LET name == SubSeq(buf, p + 4, p + 3 + hostname_len)
                  IN  Ret([t EXCEPT !.peer_conf = @ \/ name \in conf.vhosts],
                          T_OK)
             ELSE sni_loop_any_name(t, buf, p + hostname_len + 3,
                                    size - (hostname_len + 3))

RECURSIVE sni_loop(_, _, _, _)
\* the while loop of ttls_parse_servername_ext; p is the offset of the entry
sni_loop(t, buf, p, size) ==
    IF size = 0 THEN Ret(t, T_OK)
    ELSE LET hostname_len == B(buf, p + 1) * 256 + B(buf, p + 2)
         IN  IF hostname_len + 3 > size THEN BadHello(t, "decode_error")
             ELSE IF conf.f_sni /\ B(buf, p) = 0
             THEN LET name == SubSeq(buf, p + 4, p + 3 + hostname_len)
                  IN  IF name \in conf.vhosts
                      THEN Ret([t EXCEPT !.peer_conf = TRUE], T_OK)
                      ELSE BadHello(t, "unrecognized_name")
             ELSE sni_loop(t, buf, p + hostname_len + 3,
                           size - (hostname_len + 3))

ttls_parse_servername_ext(t, buf, len) ==
    IF len < 2 THEN BadHello(t, "decode_error")
    ELSE LET servername_list_size == B(buf, 0) * 256 + B(buf, 1)
         IN  IF servername_list_size + 2 # len
             THEN BadHello(t, "decode_error")
             ELSE sni_loop(t, buf, 2, servername_list_size)

RECURSIVE sig_alg_loop(_, _, _, _)
sig_alg_loop(set, buf, p, end) ==
    IF p >= end THEN set
    ELSE LET sig_cur == ttls_pk_alg_from_sig(B(buf, p + 1))
             md_cur == ttls_md_alg_from_hash(B(buf, p))
         IN  IF sig_cur = TTLS_PK_NONE \/ md_cur = TTLS_MD_NONE
             THEN sig_alg_loop(set, buf, p + 2, end)
             ELSE sig_alg_loop(ttls_sig_hash_set_add(set, sig_cur, md_cur),
                               buf, p + 2, end)

ttls_parse_signature_algorithms_ext(t, buf, len) ==
    IF len < 2 THEN BadHello(t, "decode_error")
    ELSE LET sig_alg_list_size == B(buf, 0) * 256 + B(buf, 1)
         IN  IF sig_alg_list_size + 2 # len \/ sig_alg_list_size % 2 # 0
             THEN BadHello(t, "decode_error")
             ELSE Ret([t EXCEPT !.hash_algs =
                          sig_alg_loop(t.hash_algs, buf, 2, len)], T_OK)

RECURSIVE curves_loop(_, _, _, _, _)
\* for (c = i = 0, p = buf + 2; i < list_size; ++i): i counts BYTES of the
\* list while p advances by two bytes per turn
curves_loop(curves, buf, i, c, list_size) ==
    IF i >= list_size THEN curves
    ELSE LET ci == ttls_ecp_curve_info_from_tls_id(
                       B(buf, 2 + 2 * i) * 256 + B(buf, 3 + 2 * i))
         IN  IF ci # TTLS_ECP_DP_NONE
             THEN curves_loop([curves EXCEPT ![c + 1] = ci], buf, i + 1,
                              c + 1, list_size)
             ELSE curves_loop(curves, buf, i + 1, c, list_size)

ttls_parse_supported_elliptic_curves(t, buf, len) ==
    IF len < 2 THEN BadHello(t, "decode_error")
    ELSE LET list_size == B(buf, 0) * 256 + B(buf, 1)
             clamped == IF list_size \div 2 + 1 > TTLS_ECP_DP_MAX
                        THEN TTLS_ECP_DP_MAX - 1 ELSE list_size
         IN  IF list_size + 2 # len \/ list_size % 2 # 0
             THEN BadHello(t, "decode_error")
             ELSE IF t.curves_ext THEN BadHello(t, "decode_error")
             ELSE Ret([t EXCEPT !.curves_ext = TRUE,
                                !.curves = curves_loop(t.curves, buf, 0, 0,
                                                       clamped)], T_OK)

RECURSIVE point_formats_loop(_, _, _, _)
point_formats_loop(t, buf, p, list_size) ==
    IF list_size = 0 THEN t
    ELSE IF B(buf, p) = TTLS_ECP_PF_UNCOMPRESSED
            \/ B(buf, p) = TTLS_ECP_PF_COMPRESSED
         THEN [t EXCEPT !.point_format = B(buf, p)]
         ELSE point_formats_loop(t, buf, p + 1, list_size - 1)

ttls_parse_supported_point_formats(t, buf, len) ==
    IF len = 0 \/ B(buf, 0) + 1 # len THEN BadHello(t, "decode_error")
    ELSE Ret(point_formats_loop([t EXCEPT !.cli_exts = TRUE], buf, 1,
                                B(buf, 0)), T_OK)

ttls_parse_extended_ms_ext(t, buf, len) ==
    IF len # 0 THEN BadHello(t, "decode_error")
    ELSE Ret([t EXCEPT !.extended_ms = TRUE], T_OK)

\* conf->f_ticket_parse(): the ticket codec accepts exactly the tickets it
\* issued; the session it restores carries the suite of the old session
f_ticket_parse(buf, len) == SubSeq(buf, 1, len) \in conf.tickets

\* the handler refusing the hello when the ticket does not parse
ttls_parse_session_ticket_ext_strict(t, buf, len) ==
    IF ~conf.f_ticket THEN Ret(t, T_OK)
    ELSE LET t1 == [t EXCEPT !.new_session_ticket = TRUE]
         IN  IF len = 0 THEN Ret(t1, T_OK)
             ELSE IF ~f_ticket_parse(buf, len)
             THEN BadHello(t, "decode_error")
             ELSE Ret([t1 EXCEPT !.sess_from_ticket = TRUE,
                                 !.resume = TRUE,
                                 !.new_session_ticket = FALSE], T_OK)

ttls_parse_session_ticket_ext(t, buf, len) ==
    IF ~conf.f_ticket THEN Ret(t, T_OK)
    ELSE LET t1 == [t EXCEPT !.new_session_ticket = TRUE]
         IN  IF len = 0 THEN Ret(t1, T_OK)
             ELSE IF ~f_ticket_parse(buf, len) THEN Ret(t1, T_OK)
             ELSE \* session.id_len/id are kept, the rest comes from the ticket
                  Ret([t1 EXCEPT !.sess_from_ticket = TRUE,
                                 !.resume = TRUE,
                                 !.new_session_ticket = FALSE], T_OK)

RECURSIVE alpn_validate(_, _, _)
\* the length-validation loop; p is the offset of a length byte.
\* Result: "ok", or the alert to send
alpn_validate(buf, p, end) ==
    IF p = end THEN "ok"
    ELSE LET cur_len == B(buf, p)
         IN  IF cur_len > end - (p + 1) THEN "decode_error"
             ELSE IF cur_len = 0 THEN "illegal_parameter"
             ELSE alpn_validate(buf, p + 1 + cur_len, end)

RECURSIVE alpn_offers(_, _, _)
\* the protocol names of a validated list, in the peer's order
alpn_offers(buf, p, end) ==
    IF p = end THEN <<>>
    ELSE <<SubSeq(buf, p + 2, p + 1 + B(buf, p))>>
         \o alpn_offers(buf, p + 1 + B(buf, p), end)

RECURSIVE alpn_match_peer_order(_, _)
\* the matching in the peer's order of preference: the index of our protocol
\* that equals the first protocol of theirs we have, 0 when there is none
alpn_match_peer_order(i, theirs) ==
    IF theirs = <<>> THEN 0
    ELSE IF \E k \in 1..Len(conf.alpn_list) : conf.alpn_list[k] = Head(theirs)
    THEN CHOOSE k \in 1..Len(conf.alpn_list) : conf.alpn_list[k] = Head(theirs)
    ELSE alpn_match_peer_order(i, Tail(theirs))

RECURSIVE alpn_match(_, _)
\* "Use our order of preference": index of the first of our protocols the
\* peer offers, 0 when there is none
alpn_match(i, theirs) ==
    IF i > Len(conf.alpn_list) THEN 0
    ELSE IF \E k \in 1..Len(theirs) : theirs[k] = conf.alpn_list[i] THEN i
    ELSE alpn_match(i + 1, theirs)

ttls_parse_alpn_ext(t, buf, len) ==
    IF len < 4 THEN BadHello(t, "decode_error")
    ELSE LET list_len == B(buf, 0) * 256 + B(buf, 1)
         IN  IF list_len # len - 2 THEN BadHello(t, "decode_error")
             ELSE LET v == alpn_validate(buf, 2, len)
                  IN  IF v # "ok" THEN BadHello(t, v)
                      ELSE LET m == alpn_match(1, alpn_offers(buf, 2, len))
                           IN  IF m # 0
                               THEN Ret([t EXCEPT !.alpn_chosen = m], T_OK)
                               ELSE BadHello(t, "no_application_protocol")

ttls_parse_renegotiation_info_ext(t, buf, len) ==
    IF len # 1 \/ B(buf, 0) # 0 THEN BadHello(t, "decode_error")
    ELSE Ret([t EXCEPT !.secure_renegotiation = TRUE], T_OK)

(***************************************************************************)
(* ttls_check_scsvs()                                                      *)
(***************************************************************************)
ttls_check_scsvs(t, cipher_suite) ==
    IF cipher_suite = TTLS_FALLBACK_SCSV_VALUE
    THEN IF t.minor < conf.max_minor_ver
         THEN BadHello(t, "inappropriate_fallback")
         ELSE Ret(t, T_OK)
    ELSE IF cipher_suite = TTLS_EMPTY_RENEGOTIATION_INFO
    THEN Ret([t EXCEPT !.secure_renegotiation = TRUE], T_OK)
    ELSE Ret(t, T_OK)

(***************************************************************************)
(* The ClientHello sub-FSM of ttls_parse_client_hello().                   *)
(*                                                                         *)
(* buf is the chunk, p the offset of the next unread byte, sp the offset   *)
(* where the current sub-state started in this chunk (state_p).            *)
(***************************************************************************)
\* Read16 with the second byte of a split field overwriting the first one
Read16_overwrite(t, buf, p, x) ==
    IF t.rlen # 0
    THEN [done |-> TRUE, val |-> B(buf, p), p |-> p + 1]
    ELSE IF Len(buf) - p = 1
    THEN [done |-> FALSE, val |-> B(buf, p) * 256, p |-> p + 1]
    ELSE [done |-> TRUE, val |-> B(buf, p) * 256 + B(buf, p + 1), p |-> p + 2]

\* A two-byte big-endian field that may be split between chunks:
\*   if (io->rlen) x += *p++;
\*   else if (buf + len - p == 1) { x = *p++ << 8; T_FSM_EXIT(); }
\*   else { x = (p[0] << 8) + p[1]; p += 2; }
Read16(t, buf, p, x) ==
    IF t.rlen # 0
    THEN [done |-> TRUE, val |-> x + B(buf, p), p |-> p + 1]
    ELSE IF Len(buf) - p = 1
    THEN [done |-> FALSE, val |-> B(buf, p) * 256, p |-> p + 1]
    ELSE [done |-> TRUE, val |-> B(buf, p) * 256 + B(buf, p + 1), p |-> p + 2]

\* TTLS_HS_FSM_FINISH(): *read += p - buf; io->rlen += p - state_p
HS_FSM_FINISH(t, r, p, sp) ==
    [t EXCEPT !.r = r, !.read = @ + p, !.rlen = @ + (p - sp)]

RECURSIVE ch_fsm(_, _, _, _)

\* TTLS_HS_FSM_MOVE(st): enter st when the chunk has more data, leave the
\* function with T_POSTPONE otherwise
HS_FSM_MOVE(t, st, buf, p) ==
    LET t1 == [t EXCEPT !.sub = st, !.rlen = 0]
    IN  IF p >= Len(buf) THEN HS_FSM_FINISH(t1, T_POSTPONE, p, p)
        ELSE ch_fsm(t1, buf, p, p)

\* TTLS_HS_FSM_JMP(st): enter st whether or not there is more data
HS_FSM_JMP(t, st, buf, p) ==
    ch_fsm([t EXCEPT !.sub = st, !.rlen = 0], buf, p, p)

\* the switch (tls->hs->ext_type) of TTLS_CH_HS_EX
ch_ext_dispatch(t) ==
    LET ty == t.ext_type
        tmp == t.ext
        sz == t.ext_sz
    IN  IF ty = TTLS_TLS_EXT_SERVERNAME
        THEN ttls_parse_servername_ext(t, tmp, sz)
        ELSE IF ty = TTLS_TLS_EXT_SIG_ALG
        THEN ttls_parse_signature_algorithms_ext(t, tmp, sz)
        ELSE IF ty = TTLS_TLS_EXT_SUPPORTED_ELLIPTIC_CURVES
        THEN ttls_parse_supported_elliptic_curves(t, tmp, sz)
        ELSE IF ty = TTLS_TLS_EXT_SUPPORTED_POINT_FORMATS
        THEN ttls_parse_supported_point_formats(t, tmp, sz)
        ELSE IF ty = TTLS_TLS_EXT_EXTENDED_MASTER_SECRET
        THEN ttls_parse_extended_ms_ext(t, tmp, sz)
        ELSE IF ty = TTLS_TLS_EXT_SESSION_TICKET
        THEN ttls_parse_session_ticket_ext(t, tmp, sz)
        ELSE IF ty = TTLS_TLS_EXT_ALPN
        THEN ttls_parse_alpn_ext(t, tmp, sz)
        ELSE IF ty = TTLS_TLS_EXT_RENEGOTIATION_INFO
        THEN ttls_parse_renegotiation_info_ext(t, tmp, sz)
        ELSE Ret(t, T_OK)

ch_HS_VER(t, buf, p, sp) ==
    IF t.rlen = 0 /\ Len(buf) - p = 1
    THEN HS_FSM_FINISH([t EXCEPT !.major = B(buf, p)], T_POSTPONE, p + 1, sp)
    ELSE LET t1 == IF t.rlen # 0 THEN [t EXCEPT !.minor = B(buf, p)]
                   ELSE [t EXCEPT !.major = B(buf, p),
                                  !.minor = B(buf, p + 1)]
             p1 == IF t.rlen # 0 THEN p + 1 ELSE p + 2
             t2 == [t1 EXCEPT !.hslen = @ - 2]
         IN  IF t2.major # TTLS_MAJOR_VERSION_3
                \/ t2.minor # TTLS_MINOR_VERSION_3
             THEN Ret(Alert(t2, "protocol_version"),
                      TTLS_ERR_BAD_HS_PROTOCOL_VERSION)
             ELSE HS_FSM_MOVE(t2, "CH_HS_RND", buf, p1)

ch_HS_RND(t, buf, p, sp) ==
    LET n == Min(HS_RND_SZ - t.rlen, Len(buf) - p)
        t1 == [t EXCEPT !.randbytes =
                            MemCpy(@, t.rlen, SubSeq(buf, p + 1, p + n)),
                        !.hslen = @ - n]
    IN  IF t.rlen + n < HS_RND_SZ
        THEN HS_FSM_FINISH(t1, T_POSTPONE, p + n, sp)
        ELSE HS_FSM_MOVE(t1, "CH_HS_SLEN", buf, p + n)

ch_HS_SLEN(t, buf, p, sp) ==
    LET n == B(buf, p)
    IN  IF n > SESS_ID_SZ \/ n + 9 > t.hslen
        THEN BadHello(t, "decode_error")
        ELSE LET t1 == [t EXCEPT !.sess_id_len = n, !.hslen = @ - 1]
             IN  IF n # 0 THEN HS_FSM_MOVE(t1, "CH_HS_SESS", buf, p + 1)
                 ELSE HS_FSM_MOVE(t1, "CH_HS_CSLEN", buf, p + 1)

\* memcmp_fast(tls->sess.id + io->rlen, p, n): the bytes are compared with
\* the zeroed session id and the result is dropped; nothing is stored
ch_HS_SESS(t, buf, p, sp) ==
    LET n == Min(t.sess_id_len - t.rlen, Len(buf) - p)
        t1 == [t EXCEPT !.hslen = @ - n]
    IN  IF t.rlen + n < t.sess_id_len
        THEN HS_FSM_FINISH(t1, T_POSTPONE, p + n, sp)
        ELSE HS_FSM_MOVE(t1, "CH_HS_CSLEN", buf, p + n)

ch_HS_CSLEN(t, buf, p, sp) ==
    LET f == Read16(t, buf, p, t.cs_total_len)
        t1 == [t EXCEPT !.cs_total_len = f.val]
    IN  IF ~f.done THEN HS_FSM_FINISH(t1, T_POSTPONE, f.p, sp)
        ELSE LET n == f.val
                 t2 == [t1 EXCEPT !.cs_cur_len = 0, !.hslen = @ - 2]
             IN  IF n < 2 \/ n + 1 > t2.hslen \/ n % 2 = 1
                 THEN BadHello(t2, "decode_error")
                 ELSE HS_FSM_MOVE(t2, "CH_HS_CS", buf, f.p)

\* css[k] = v and css[k] of the C array css, indices from 1: a store past
\* the end of the array lands in the memory behind it, which the model
\* shows as the array growing
Store(css, k, v) ==
    [i \in 1..(IF k > Len(css) THEN k ELSE Len(css)) |->
        IF i = k THEN v ELSE IF i <= Len(css) THEN css[i] ELSE 0]

Load(css, k) == IF k <= Len(css) THEN css[k] ELSE 0

\* TTLS_CH_HS_CS without the test for a full css
ch_HS_CS_unguarded(t, buf, p, sp) ==
    LET k == t.cs_cur_len \div 2 + 1
        f == Read16(t, buf, p, Load(t.css, k))
        t1 == [t EXCEPT !.css = Store(@, k, f.val)]
    IN  IF ~f.done THEN HS_FSM_FINISH(t1, T_POSTPONE, f.p, sp)
        ELSE LET t2 == ttls_check_scsvs(t1, f.val)
             IN  IF t2.r # T_OK
                 THEN Ret(t2, TTLS_ERR_BAD_HS_CLIENT_HELLO)
                 ELSE LET t3 == [t2 EXCEPT !.r = T_POSTPONE,
                                           !.hslen = @ - 2,
                                           !.cs_cur_len = @ + 2]
                      IN  IF t3.cs_cur_len = t3.cs_total_len
                          THEN HS_FSM_MOVE(t3, "CH_HS_COMPN", buf, f.p)
                          ELSE HS_FSM_MOVE(t3, "CH_HS_CS", buf, f.p)

ch_HS_CS(t, buf, p, sp) ==
    IF t.cs_cur_len >= 2 * CSS_MAX
    THEN HS_FSM_MOVE(t, "CH_HS_CS_SKIP", buf, p)
    ELSE LET k == t.cs_cur_len \div 2 + 1
             f == Read16(t, buf, p, Load(t.css, k))
             t1 == [t EXCEPT !.css = Store(@, k, f.val)]
         IN  IF ~f.done THEN HS_FSM_FINISH(t1, T_POSTPONE, f.p, sp)
             ELSE LET t2 == ttls_check_scsvs(t1, f.val)
                  IN  IF t2.r # T_OK
                      THEN Ret(t2, TTLS_ERR_BAD_HS_CLIENT_HELLO)
                      ELSE LET t3 == [t2 EXCEPT !.r = T_POSTPONE,
                                                !.hslen = @ - 2,
                                                !.cs_cur_len = @ + 2]
                           IN  IF t3.cs_cur_len = t3.cs_total_len
                               THEN HS_FSM_MOVE(t3, "CH_HS_COMPN", buf, f.p)
                               ELSE HS_FSM_MOVE(t3, "CH_HS_CS", buf, f.p)

ch_HS_CS_SKIP(t, buf, p, sp) ==
    LET n == t.cs_total_len
        delta == Min(Len(buf) - p, n - t.cs_cur_len)
        t1 == [t EXCEPT !.hslen = @ - delta, !.cs_cur_len = @ + delta]
    IN  IF t1.cs_cur_len = n
        THEN HS_FSM_MOVE([t1 EXCEPT !.cs_total_len = 2 * CSS_MAX],
                         "CH_HS_COMPN", buf, p + delta)
        ELSE HS_FSM_MOVE(t1, "CH_HS_CS_SKIP", buf, p + delta)

ch_HS_COMPN(t, buf, p, sp) ==
    LET n == B(buf, p)
    IN  IF n < 1 \/ n > COMPR_MAX \/ n + 1 > t.hslen
        THEN BadHello(t, "decode_error")
        ELSE HS_FSM_MOVE([t EXCEPT !.compr_n = n, !.compr_has_null = FALSE,
                                   !.hslen = @ - 1],
                         "CH_HS_COMP", buf, p + 1)

ch_HS_COMP(t, buf, p, sp) ==
    LET t1 == [t EXCEPT !.compr_has_null =
                            IF B(buf, p) = TTLS_COMPRESS_NULL THEN TRUE ELSE @,
                        !.hslen = @ - 1,
                        !.compr_n = @ - 1]
    IN  IF t1.compr_n = 0
        THEN IF ~t1.compr_has_null THEN BadHello(t1, "decode_error")
             ELSE HS_FSM_MOVE(t1, "CH_HS_EXTLEN", buf, p + 1)
        ELSE HS_FSM_MOVE(t1, "CH_HS_COMP", buf, p + 1)

ch_HS_EXTLEN(t, buf, p, sp) ==
    LET f == Read16(t, buf, p, t.ext_rem_sz)
        t1 == [t EXCEPT !.ext_rem_sz = f.val]
    IN  IF ~f.done THEN HS_FSM_FINISH(t1, T_POSTPONE, f.p, sp)
        ELSE LET n == f.val
                 t2 == [t1 EXCEPT !.hslen = @ - 2]
             IN  IF t2.hslen # n \/ (n > 0 /\ n < 4)
                 THEN BadHello(t2, "decode_error")
                 ELSE IF n = 0 THEN HS_FSM_FINISH(t2, T_OK, f.p, sp)
                 ELSE HS_FSM_MOVE(t2, "CH_HS_EXT", buf, f.p)

ch_HS_EXT(t, buf, p, sp) ==
    LET f == Read16(t, buf, p, t.ext_type)
        t1 == [t EXCEPT !.ext_type = f.val]
    IN  IF ~f.done THEN HS_FSM_FINISH(t1, T_POSTPONE, f.p, sp)
        ELSE HS_FSM_MOVE([t1 EXCEPT !.hslen = @ - 2], "CH_HS_EXS", buf, f.p)

\* TTLS_CH_HS_EXS without the test of the extension's size
ch_HS_EXS_unchecked(t, buf, p, sp) ==
    LET f == Read16(t, buf, p, t.ext_sz)
        t1 == [t EXCEPT !.ext_sz = f.val]
    IN  IF ~f.done THEN HS_FSM_FINISH(t1, T_POSTPONE, f.p, sp)
        ELSE LET t2 == [t1 EXCEPT !.hslen = @ - 2]
             IN  IF f.val # 0 THEN HS_FSM_MOVE(t2, "CH_HS_EX", buf, f.p)
                 ELSE HS_FSM_JMP(t2, "CH_HS_EX", buf, f.p)

ch_HS_EXS(t, buf, p, sp) ==
    LET f == Read16(t, buf, p, t.ext_sz)
        t1 == [t EXCEPT !.ext_sz = f.val]
    IN  IF ~f.done THEN HS_FSM_FINISH(t1, T_POSTPONE, f.p, sp)
        ELSE LET n == f.val
                 t2 == [t1 EXCEPT !.hslen = @ - 2]
             IN  IF n + 4 > t2.ext_rem_sz \/ n > HS_RBUF_SZ
                 THEN BadHello(t2, "decode_error")
                 ELSE IF n # 0 THEN HS_FSM_MOVE(t2, "CH_HS_EX", buf, f.p)
                 ELSE HS_FSM_JMP(t2, "CH_HS_EX", buf, f.p)

ch_HS_EX(t, buf, p, sp) ==
    LET n == Min(t.ext_sz - t.rlen, Len(buf) - p)
        t1 == [t EXCEPT !.ext = MemCpy(@, t.rlen, SubSeq(buf, p + 1, p + n))]
    IN  IF t.rlen + n < t.ext_sz
        THEN HS_FSM_FINISH(t1, T_POSTPONE, p + n, sp)
        ELSE LET t2 == ch_ext_dispatch(t1)
             IN  IF t2.r # T_OK THEN Ret(t2, TTLS_ERR_BAD_HS_CLIENT_HELLO)
                 ELSE LET t3 == [t2 EXCEPT !.r = T_POSTPONE,
                                           !.ext_rem_sz = @ - (4 + t.ext_sz)]
                      IN  IF t3.ext_rem_sz > 0 /\ t3.ext_rem_sz < 4
                          THEN BadHello(t3, "decode_error")
                          ELSE IF t3.ext_rem_sz # 0
                          THEN HS_FSM_MOVE(t3, "CH_HS_EXT", buf, p + n)
                          ELSE HS_FSM_FINISH(t3, T_OK, p + n, sp)

\* T_FSM_START(ttls_substate(tls)) { ... }
ch_fsm(t, buf, p, sp) ==
    CASE t.sub = "CH_HS_VER" -> ch_HS_VER(t, buf, p, sp)
      [] t.sub = "CH_HS_RND" -> ch_HS_RND(t, buf, p, sp)
      [] t.sub = "CH_HS_SLEN" -> ch_HS_SLEN(t, buf, p, sp)
      [] t.sub = "CH_HS_SESS" -> ch_HS_SESS(t, buf, p, sp)
      [] t.sub = "CH_HS_CSLEN" -> ch_HS_CSLEN(t, buf, p, sp)
      [] t.sub = "CH_HS_CS" -> ch_HS_CS(t, buf, p, sp)
      [] t.sub = "CH_HS_CS_SKIP" -> ch_HS_CS_SKIP(t, buf, p, sp)
      [] t.sub = "CH_HS_COMPN" -> ch_HS_COMPN(t, buf, p, sp)
      [] t.sub = "CH_HS_COMP" -> ch_HS_COMP(t, buf, p, sp)
      [] t.sub = "CH_HS_EXTLEN" -> ch_HS_EXTLEN(t, buf, p, sp)
      [] t.sub = "CH_HS_EXT" -> ch_HS_EXT(t, buf, p, sp)
      [] t.sub = "CH_HS_EXS" -> ch_HS_EXS(t, buf, p, sp)
      [] t.sub = "CH_HS_EX" -> ch_HS_EX(t, buf, p, sp)

(***************************************************************************)
(* Cipher suite selection.                                                 *)
(***************************************************************************)
\* ttls_ciphersuite_from_id(): the suite table; key_exchange "" is NULL
ttls_ciphersuite_from_id(id) ==
    LET kx == CASE id = TLS_RSA_WITH_AES_128_GCM_SHA256 -> "RSA"
                [] id = TLS_DHE_RSA_WITH_AES_128_GCM_SHA256 -> "DHE_RSA"
                [] id = TLS_ECDHE_RSA_WITH_AES_128_GCM_SHA256 -> "ECDHE_RSA"
                [] id = TLS_ECDHE_ECDSA_WITH_AES_128_GCM_SHA256
                   -> "ECDHE_ECDSA"
                [] OTHER -> ""
    IN  [id |-> id, key_exchange |-> kx,
         min_minor_ver |-> TTLS_MINOR_VERSION_3,
         max_minor_ver |-> TTLS_MINOR_VERSION_3]

NoSuite == [id |-> 0, key_exchange |-> "",
            min_minor_ver |-> TTLS_MINOR_VERSION_3,
            max_minor_ver |-> TTLS_MINOR_VERSION_3]

ttls_ciphersuite_uses_ec(ci) ==
    ci.key_exchange \in {"ECDHE_RSA", "ECDHE_ECDSA"}

ttls_ciphersuite_uses_ecdhe(ci) ==
    ci.key_exchange \in {"ECDHE_RSA", "ECDHE_ECDSA"}

ttls_ciphersuite_uses_dhe(ci) == ci.key_exchange = "DHE_RSA"

ttls_ciphersuite_no_pfs(ci) == ci.key_exchange = "RSA"

\* ttls_get_ciphersuite_sig_alg(): who signs the ServerKeyExchange
ttls_get_ciphersuite_sig_alg(ci) ==
    IF ci.key_exchange \in {"RSA", "DHE_RSA", "ECDHE_RSA"} THEN TTLS_PK_RSA
    ELSE IF ci.key_exchange = "ECDHE_ECDSA" THEN TTLS_PK_ECDSA
    ELSE TTLS_PK_NONE

\* ttls_get_ciphersuite_sig_pk_alg(): the key the certificate must hold
ttls_get_ciphersuite_sig_pk_alg(ci) == ttls_get_ciphersuite_sig_alg(ci)

\* ttls_pk_can_do(key, alg)
ttls_pk_can_do(key, alg) == key.pk = alg

\* ttls_check_key_curve(): 0 iff the key's group is among hs->curves
ttls_check_key_curve(key, curves) ==
    \E k \in 1..Len(curves) :
        /\ curves[k] = key.grp_id
        /\ \A j \in 1..k : curves[j] # TTLS_ECP_DP_NONE

RECURSIVE pick_cert_loop(_, _, _, _)
\* the for loop of ttls_pick_cert(): index of the first fitting key/cert,
\* 0 when the list is exhausted
pick_cert_loop(list, k, pk_alg, curves) ==
    IF k > Len(list) THEN 0
    ELSE IF ~ttls_pk_can_do(list[k], pk_alg) THEN
             pick_cert_loop(list, k + 1, pk_alg, curves)
    ELSE IF ~list[k].usage_ok THEN
             pick_cert_loop(list, k + 1, pk_alg, curves)
    ELSE IF pk_alg = TTLS_PK_ECDSA
            /\ ~ttls_check_key_curve(list[k], curves) THEN
             pick_cert_loop(list, k + 1, pk_alg, curves)
    ELSE k

\* ttls_pick_cert(): the index of the certificate picked; 0 is failure (-1)
\* for a suite that needs a certificate
ttls_pick_cert(t, ci) ==
    pick_cert_loop(conf.key_cert, 1, ttls_get_ciphersuite_sig_pk_alg(ci),
                   t.curves)

\* ttls_ciphersuite_match(): r, and ci (NoSuite when the suite does not fit)
ttls_ciphersuite_match(t, suite_id) ==
    LET suite_info == ttls_ciphersuite_from_id(suite_id)
        sig_type == ttls_get_ciphersuite_sig_alg(suite_info)
        cert == ttls_pick_cert(t, suite_info)
        miss == [r |-> T_OK, ci |-> NoSuite, key_cert |-> t.key_cert]
    IN  IF suite_info.key_exchange = ""
        THEN [r |-> TTLS_ERR_INTERNAL_ERROR, ci |-> NoSuite,
              key_cert |-> t.key_cert]
        ELSE IF suite_info.min_minor_ver > t.minor
                \/ suite_info.max_minor_ver < t.minor THEN miss
        ELSE IF ttls_ciphersuite_uses_ec(suite_info)
                /\ t.curves[1] = TTLS_ECP_DP_NONE THEN miss
        ELSE IF sig_type # TTLS_PK_NONE
                /\ ttls_sig_hash_set_find(t.hash_algs, sig_type)
                   = TTLS_MD_NONE THEN miss
        ELSE IF ttls_get_ciphersuite_sig_pk_alg(suite_info) # TTLS_PK_NONE
                /\ cert = 0 THEN miss
        ELSE [r |-> T_OK, ci |-> suite_info,
              key_cert |-> IF cert = 0 THEN t.key_cert ELSE cert]

RECURSIVE choose_loop_peer_first(_, _, _, _)
\* the two loops with the peer's list outside and the server's inside
choose_loop_peer_first(t, i, k, got) ==
    LET ciphersuites == conf.ciphersuite_list
        cs_cnt == t.cs_total_len \div 2
    IN  IF k > cs_cnt
        THEN Ret(Alert(t, "handshake_failure"), EINVAL)
        ELSE IF i > Len(ciphersuites)
        THEN choose_loop_peer_first(t, 1, k + 1, got)
        ELSE IF t.css[k] # ciphersuites[i]
        THEN choose_loop_peer_first(t, i + 1, k, got)
        ELSE LET m == ttls_ciphersuite_match(t, ciphersuites[i])
             IN  IF m.r # T_OK THEN Ret(t, m.r)
                 ELSE IF m.ci # NoSuite
                 THEN Ret([t EXCEPT !.key_cert = m.key_cert,
                                    !.sess_ciphersuite = ciphersuites[i],
                                    !.ci = m.ci], T_OK)
                 ELSE choose_loop_peer_first(t, i + 1, k, TRUE)

RECURSIVE choose_loop(_, _, _, _)
\* for (i ...) for (cs = css; cs < css + cs_cnt; cs++): i and k are the two
\* loop indices (from 1), got the flag got_common_suite
choose_loop(t, i, k, got) ==
    LET ciphersuites == conf.ciphersuite_list
        cs_cnt == t.cs_total_len \div 2
    IN  IF i > Len(ciphersuites)
        THEN Ret(Alert(t, "handshake_failure"), EINVAL)
        ELSE IF k > cs_cnt THEN choose_loop(t, i + 1, 1, got)
        ELSE IF t.css[k] # ciphersuites[i] THEN choose_loop(t, i, k + 1, got)
        ELSE LET m == ttls_ciphersuite_match(t, ciphersuites[i])
             IN  IF m.r # T_OK THEN Ret(t, m.r)
                 ELSE IF m.ci # NoSuite
                 THEN Ret([t EXCEPT !.key_cert = m.key_cert,
                                    !.sess_ciphersuite = ciphersuites[i],
                                    !.ci = m.ci], T_OK)
                 ELSE choose_loop(t, i, k + 1, TRUE)

ttls_choose_ciphersuite(t) == choose_loop(t, 1, 1, FALSE)

(***************************************************************************)
(* ttls_parse_client_hello(): buf is the chunk; hh_len is non-zero for the *)
(* chunk that follows the handshake header; e holds the outcomes of the    *)
(* external calls of this step.                                            *)
(***************************************************************************)
\* ttls_update_checksum(tls, buf - hh_len, n + hh_len): the transcript gets
\* n body bytes of the message in flight from offset off, and its header
\* when hh_len is not zero.  The transcript is kept as the list of byte
\* ranges hashed, a range that continues the previous one extending it
ttls_update_checksum(t, hh_len, off, n) ==
    LET k == Len(t.cksum)
    IN  IF hh_len = 0 /\ k > 0 /\ t.cksum[k].type = t.hstype
           /\ t.cksum[k].to = off
        THEN [t EXCEPT !.cksum[k].to = off + n]
        ELSE [t EXCEPT !.cksum = Append(@, [type |-> t.hstype,
                                           hdr |-> hh_len # 0,
                                           from |-> off, to |-> off + n])]

\* what follows TTLS_HS_FSM_FINISH() once the message is parsed
ch_final(t, hh_len, off, e) ==
    LET bound == IF ~t.peer_conf /\ conf.f_sni /\ conf.default_vhost
                 THEN [t EXCEPT !.peer_conf = TRUE] ELSE t
    IN  IF ~bound.peer_conf THEN Ret(bound, "-TTLS_ERR_BAD_HS_CLIENT_HELLO")
        ELSE IF e.fail = "ttls_match_sig_hashes"
        THEN Ret(bound, TTLS_ERR_INTERNAL_ERROR)
        ELSE LET c == ttls_choose_ciphersuite(bound)
             IN  IF c.r # T_OK THEN c
                 ELSE Ret(ttls_update_checksum(c, hh_len, off, c.read), T_OK)

ttls_parse_client_hello(t, buf, hh_len, off, e) ==
    IF t.hstype # "ClientHello" THEN Ret(t, TTLS_ERR_BAD_HS_CLIENT_HELLO)
    ELSE LET t1 == ch_fsm([t EXCEPT !.r = T_POSTPONE, !.read = 0],
                          buf, 0, 0)
         IN  IF t1.r # T_OK THEN t1 ELSE ch_final(t1, hh_len, off, e)

(***************************************************************************)
(* The ServerHello block: ttls_handshake_server_hello() and its writers.   *)
(* t.sgt is the scatter-gather list being built, t.pg the reference count  *)
(* of the page the messages are written into, t.log the ghost record of    *)
(* what the state machine did (states entered, messages parsed, written    *)
(* and sent).                                                              *)
(***************************************************************************)
Log(t, ev) == [t EXCEPT !.log = Append(@, ev)]

\* the ghost log notes a state when it is entered, once per stay
LogSt(t, st) ==
    IF \E k \in 1..Len(t.log) :
          /\ t.log[k] = <<"st", st>>
          /\ \A j \in (k + 1)..Len(t.log) : t.log[j][1] # "st"
    THEN t ELSE Log(t, <<"st", st>>)

\* sg_set_buf(&sgt->sgl[sgt->nents++], ...); get_page(); __ttls_add_record()
AddFrag(t, msg) ==
    Log([t EXCEPT !.sgt = Append(@, msg), !.pg = @ + 1], <<"tx", msg.type>>)

\* the five extension writers of ServerHello, in the order they are called
ttls_write_renegotiation_info(t) ==
    IF t.secure_renegotiation THEN <<"renegotiation_info">> ELSE <<>>

ttls_write_extended_ms_ext(t) ==
    IF t.extended_ms THEN <<"extended_master_secret">> ELSE <<>>

ttls_write_session_ticket_ext(t) ==
    IF t.new_session_ticket THEN <<"session_ticket">> ELSE <<>>

ttls_write_supported_point_formats_ext(t) ==
    IF t.cli_exts THEN <<"ec_point_formats">> ELSE <<>>

ttls_write_alpn_ext(t) == IF t.alpn_chosen # 0 THEN <<"alpn">> ELSE <<>>

\* ttls_derive_keys(): the keys are computed from the premaster secret and,
\* for the extended master secret, from the transcript hashed so far, kept
\* in session_hash
ttls_derive_keys(t, e) ==
    IF e.fail = "ttls_derive_keys" THEN Ret(t, TTLS_ERR_INTERNAL_ERROR)
    ELSE Ret([t EXCEPT !.keys_derived = TRUE, !.session_hash = t.cksum], T_OK)

ttls_write_server_hello(t, e) ==
    LET t1 == IF ~t.resume
              THEN IF t.new_session_ticket
                   THEN Ret([t EXCEPT !.state = "SERVER_CERTIFICATE",
                                      !.sess_id_len = 0,
                                      !.sess_id = Rep(SESS_ID_SZ, 0)], T_OK)
                   ELSE Ret([t EXCEPT !.state = "SERVER_CERTIFICATE",
                                      !.sess_id_len = SESS_ID_SZ,
                                      !.sess_id = Rep(SESS_ID_SZ, e.rnd)],
                            T_OK)
              ELSE ttls_derive_keys(
                       [t EXCEPT !.state = "SERVER_CHANGE_CIPHER_SPEC"], e)
        exts == ttls_write_renegotiation_info(t1)
                \o ttls_write_extended_ms_ext(t1)
                \o ttls_write_session_ticket_ext(t1)
                \o ttls_write_supported_point_formats_ext(t1)
                \o ttls_write_alpn_ext(t1)
    IN  IF t1.r # T_OK THEN t1
        ELSE AddFrag(t1, [type |-> "ServerHello",
                          sid |-> SubSeq(t1.sess_id, 1, t1.sess_id_len),
                          suite |-> t1.sess_ciphersuite,
                          compression |-> TTLS_COMPRESS_NULL,
                          exts |-> exts,
                          ext_len_field |-> exts # <<>>])

\* a handshake message of which only the kind matters
Msg(type) == [type |-> type, sid |-> <<>>, suite |-> 0,
              compression |-> TTLS_COMPRESS_NULL, exts |-> <<>>,
              ext_len_field |-> FALSE]

\* ttls_write_certificate()
ttls_write_certificate(t, e) ==
    IF e.fail = "ttls_write_certificate" THEN Ret(t, TTLS_ERR_INTERNAL_ERROR)
    ELSE Ret(AddFrag(t, Msg("Certificate")), T_OK)

\* ttls_preset_curves: the server's own curve preference
ttls_preset_curves == <<1, 2>>

\* the two for loops of the curve matching: TRUE iff a preset curve is
\* among the curves the peer offered
curve_matching(t) ==
    \E g \in 1..Len(ttls_preset_curves) :
        \E k \in 1..Len(t.curves) :
            /\ t.curves[k] = ttls_preset_curves[g]
            /\ \A j \in 1..k : t.curves[j] # TTLS_ECP_DP_NONE

\* the curves the peer offered, up to the terminating NULL of hs->curves
offered_curves(t) ==
    {t.curves[k] : k \in {i \in 1..Len(t.curves) :
                             \A j \in 1..i : t.curves[j] # TTLS_ECP_DP_NONE}}

\* the curve the loops would stop at if they walked the peer's list outside
\* and the server's list inside
curve_matching_done_peer_order(t) ==
    LET ks == {k \in 1..Len(t.curves) :
                  /\ t.curves[k] \in offered_curves(t)
                  /\ \E g \in 1..Len(ttls_preset_curves) :
                        ttls_preset_curves[g] = t.curves[k]}
    IN  IF ks = {} THEN TTLS_ECP_DP_NONE
        ELSE t.curves[CHOOSE k \in ks : \A j \in ks : k <= j]

\* (*curve)->grp_id at the label curve_matching_done: the outer loop walks
\* ttls_preset_curves, the inner one hs->curves; TTLS_ECP_DP_NONE when
\* both ran to their ends
curve_matching_done(t) ==
    LET gs == {g \in 1..Len(ttls_preset_curves) :
                  ttls_preset_curves[g] \in offered_curves(t)}
    IN  IF gs = {} THEN TTLS_ECP_DP_NONE
        ELSE ttls_preset_curves[CHOOSE g \in gs : \A j \in gs : g <= j]

\* every suite of the table but plain RSA has the server sign its parameters
ttls_ciphersuite_uses_server_signature(ci) ==
    ci.key_exchange \in {"DHE_RSA", "ECDHE_RSA", "ECDHE_ECDSA"}

\* the err: label of ttls_write_server_key_exchange()
ske_err(t, r) == Ret([t EXCEPT !.pg = @ - 1], r)

ttls_write_server_key_exchange(t, e) ==
    LET ci == t.ci
        sig_alg == ttls_get_ciphersuite_sig_pk_alg(ci)
        md_alg == ttls_sig_hash_set_find(t.hash_algs, sig_alg)
    IN  IF ttls_ciphersuite_no_pfs(ci) THEN Ret(t, T_OK)
        ELSE IF ttls_ciphersuite_uses_ecdhe(ci) /\ ~curve_matching(t)
        THEN ske_err(t, EINVAL)
        ELSE IF ttls_ciphersuite_uses_dhe(ci) /\ ~conf.dhm_set
        THEN ske_err(t, "TTLS_ERR_BAD_INPUT_DATA")
        ELSE LET \* ttls_ecp_group_load(&tls->hs->ecdh_ctx.grp, grp_id)
                 t1 == IF ttls_ciphersuite_uses_ecdhe(ci)
                       THEN [t EXCEPT !.ecdh_grp = curve_matching_done(t)]
                       ELSE t
             IN  IF e.fail = "ttls_make_params"
                 THEN ske_err(t1, TTLS_ERR_INTERNAL_ERROR)
                 ELSE IF ttls_ciphersuite_uses_server_signature(ci)
                         /\ md_alg = TTLS_MD_NONE
                 THEN ske_err(t1, TTLS_ERR_INTERNAL_ERROR)
                 ELSE IF ttls_ciphersuite_uses_server_signature(ci)
                         /\ t.key_cert = 0
                 THEN ske_err(t1, "TTLS_ERR_PRIVATE_KEY_REQUIRED")
                 ELSE IF ttls_ciphersuite_uses_server_signature(ci)
                         /\ e.fail = "ttls_pk_sign"
                 THEN ske_err(t1, TTLS_ERR_INTERNAL_ERROR)
                 ELSE Ret(AddFrag(t1, Msg("ServerKeyExchange")), T_OK)

ttls_write_server_hello_done(t) ==
    Ret(AddFrag(t, Msg("ServerHelloDone")), T_OK)

\* __ttls_send_record(tls, &sgt, false): the list goes to the record layer
ttls_send_record(t, e) ==
    LET ok == e.fail # "__ttls_send_record"
        t1 == [t EXCEPT !.wire = Append(@, [msgs |-> t.sgt, ok |-> ok])]
    IN  Ret(Log(t1, <<"send", IF ok THEN "ok" ELSE "err">>),
            IF ok THEN T_OK ELSE ENOMEM)

\* CHECK_STATE(n): TRUE when the list is full
CHECK_STATE(t) == Len(t.sgt) >= MAX_SKB_FRAGS

\* T_FSM_FINISH() and what follows it in both writers: BUG_ON(!r), the
\* while loop (whose condition is never true), put_page(pg)
write_finish(t) ==
    IF t.r = T_OK /\ conf.config_bug
    THEN [t EXCEPT !.r = "BUG", !.crashed = TRUE]
    ELSE [t EXCEPT !.pg = @ - 1]

RECURSIVE sh_fsm(_, _, _)
\* the switch of ttls_handshake_server_hello() entered at label st
sh_fsm(t, e, st) ==
    CASE st = "SERVER_HELLO" ->
           LET t1 == ttls_write_server_hello(LogSt(t, st), e)
           IN  IF t1.r # T_OK THEN write_finish(t1)
               ELSE IF CHECK_STATE(t1) THEN write_finish(Ret(t1, ENOMEM))
               ELSE sh_fsm(t1, e, t1.state)
      [] st = "SERVER_CERTIFICATE" ->
           LET t1 == ttls_write_certificate(LogSt(t, st), e)
           IN  IF t1.r # T_OK THEN write_finish(t1)
               ELSE IF CHECK_STATE(t1) THEN write_finish(Ret(t1, ENOMEM))
               ELSE sh_fsm(t1, e, "SERVER_KEY_EXCHANGE")
      [] st = "SERVER_KEY_EXCHANGE" ->
           LET t1 == ttls_write_server_key_exchange(LogSt(t, st), e)
           IN  IF t1.r # T_OK THEN write_finish(t1)
               ELSE IF CHECK_STATE(t1) THEN write_finish(Ret(t1, ENOMEM))
               ELSE sh_fsm(t1, e, "SERVER_HELLO_DONE")
      [] st = "SERVER_HELLO_DONE" ->
           LET t1 == ttls_write_server_hello_done(LogSt(t, st))
               nxt == IF \/ /\ t.sni_authmode = "TTLS_VERIFY_UNSET"
                            /\ conf.authmode = "TTLS_VERIFY_NONE"
                         \/ t.sni_authmode = "TTLS_VERIFY_NONE"
                      THEN "CLIENT_KEY_EXCHANGE" ELSE "CLIENT_CERTIFICATE"
           IN  IF CHECK_STATE(t1) THEN write_finish(Ret(t1, ENOMEM))
               ELSE ttls_send_record([t1 EXCEPT !.state = nxt,
                                               !.pg = @ - 1], e)
      [] OTHER -> write_finish(t)

ttls_handshake_server_hello(t, e) ==
    IF e.fail = "pg_skb_alloc" THEN Ret(t, ENOMEM)
    ELSE sh_fsm([t EXCEPT !.r = T_OK, !.sgt = <<>>, !.pg = 1], e, t.state)

(***************************************************************************)
(* ttls_handshake_finished() and its writers.                              *)
(***************************************************************************)
\* ttls_write_new_session_ticket() that takes the ticket for written and
\* adds no message to the list
ttls_write_new_session_ticket_unwritten(t, e) ==
    Ret([t EXCEPT !.new_session_ticket = FALSE], T_OK)

\* a failing f_ticket_write() only makes the ticket empty
ttls_write_new_session_ticket(t, e) ==
    Ret(AddFrag([t EXCEPT !.new_session_ticket = FALSE],
                [Msg("NewSessionTicket") EXCEPT
                    !.exts = IF e.fail = "f_ticket_write"
                             THEN <<>> ELSE <<"ticket">>]), T_OK)

\* ttls_write_change_cipher_spec(): the record is made in the context's own
\* header space and goes out with the next send
ttls_write_change_cipher_spec(t) ==
    Log([t EXCEPT !.ccs_written = TRUE], <<"tx", "ChangeCipherSpec">>)

\* ttls_write_finished()
ttls_write_finished(t, e) ==
    IF e.fail = "ttls_write_finished" THEN Ret(t, TTLS_ERR_INTERNAL_ERROR)
    ELSE Ret(AddFrag(t, Msg("Finished")), T_OK)

RECURSIVE fin_fsm(_, _, _)
\* the switch of ttls_handshake_finished() entered at label st
fin_fsm(t, e, st) ==
    CASE st = "SERVER_CHANGE_CIPHER_SPEC" ->
           LET t0 == LogSt(t, st)
           IN  IF t0.new_session_ticket
               THEN LET t1 == ttls_write_new_session_ticket(t0, e)
                    IN  IF CHECK_STATE(t1)
                        THEN write_finish(Ret(t1, ENOMEM))
                        ELSE fin_fsm(t1, e, t1.state)
               ELSE LET t1 == [ttls_write_change_cipher_spec(t0) EXCEPT
                                  !.state = "SERVER_FINISHED"]
                    IN  fin_fsm(t1, e, t1.state)
      [] st = "SERVER_FINISHED" ->
           LET t1 == ttls_write_finished(LogSt(t, st), e)
           IN  IF t1.r # T_OK THEN t1
               ELSE IF CHECK_STATE(t1) THEN write_finish(Ret(t1, ENOMEM))
               ELSE LET t2 == ttls_send_record(t1, e)
                    IN  [t2 EXCEPT !.state = IF t2.resume
                                             THEN "CLIENT_CHANGE_CIPHER_SPEC"
                                             ELSE "HANDSHAKE_WRAPUP"]
      [] OTHER -> write_finish(t)

\* ttls_handshake_finished() answering ok although the send failed
ttls_handshake_finished_send_unchecked(t, e) ==
    IF e.fail = "pg_skb_alloc" THEN Ret(t, ENOMEM)
    ELSE LET t1 == fin_fsm([t EXCEPT !.r = T_OK, !.sgt = <<>>, !.pg = 1],
                           e, t.state)
         IN  IF t1.r = ENOMEM /\ t1.state = "HANDSHAKE_WRAPUP"
             THEN Ret(t1, T_OK) ELSE t1

ttls_handshake_finished(t, e) ==
    IF e.fail = "pg_skb_alloc" THEN Ret(t, ENOMEM)
    ELSE fin_fsm([t EXCEPT !.r = T_OK, !.sgt = <<>>, !.pg = 1], e, t.state)

(***************************************************************************)
(* The client's second flight.                                             *)
(***************************************************************************)
\* ttls_parse_certificate(), ttls_parse_change_cipher_spec() and
\* ttls_parse_finished(): the message must be of the kind the state waits
\* for, may come in chunks, and is then accepted or not
ttls_parse_external(t, want, buf, hh_len, off, e) ==
    IF t.hstype # want THEN Ret(t, "TTLS_ERR_UNEXPECTED_MESSAGE")
    ELSE IF t.rlen + Len(buf) < t.hslen
    THEN Ret([t EXCEPT !.rlen = @ + Len(buf), !.read = @ + Len(buf)],
             T_POSTPONE)
    ELSE IF e.fail = "parse" THEN Ret(t, "TTLS_ERR_BAD_MESSAGE")
    ELSE LET n == t.hslen - t.rlen
             t1 == Log([t EXCEPT !.read = @ + n, !.rlen = t.hslen],
                       <<"rx", want>>)
         IN  Ret(IF want = "ChangeCipherSpec" THEN t1
                 ELSE ttls_update_checksum(t1, hh_len, off, n), T_OK)

ttls_parse_certificate(t, buf, hh_len, off, e) ==
    LET t1 == ttls_parse_external(t, "Certificate", buf, hh_len, off, e)
    IN  IF t1.r = T_OK
        THEN [t1 EXCEPT !.peer_cert = IF e.fail = "empty_certificate"
                                      THEN TTLS_PK_NONE ELSE TTLS_PK_RSA]
        ELSE t1

ttls_parse_change_cipher_spec(t, buf, hh_len, off, e) ==
    ttls_parse_external(t, "ChangeCipherSpec", buf, hh_len, off, e)

ttls_parse_finished(t, buf, hh_len, off, e) ==
    ttls_parse_external(t, "Finished", buf, hh_len, off, e)

(***************************************************************************)
(* ttls_parse_encrypted_pms(): C arithmetic on unsigned int (32 bits) and  *)
(* unsigned char (8 bits).                                                 *)
(***************************************************************************)
TTLS_MAX_MAJOR_VERSION == 3
PMS_SZ == 48

RECURSIVE Pow2(_)
Pow2(n) == IF n = 0 THEN 1 ELSE 2 * Pow2(n - 1)

\* an int as the 32 bits of an unsigned int (two's complement), bit 0 first
Bits32(x) ==
    LET v == IF x >= 0 THEN x ELSE (x + 2147483647) + 1
    IN  [i \in 0..31 |-> IF i = 31 THEN (IF x < 0 THEN 1 ELSE 0)
                         ELSE (v \div Pow2(i)) % 2]

\* a | b on unsigned int
Or32(a, b) == [i \in 0..31 |-> IF a[i] = 1 \/ b[i] = 1 THEN 1 ELSE 0]

\* -a on unsigned int: invert and add one
Neg32(a) ==
    [i \in 0..31 |->
        LET carry == \A j \in 0..(i - 1) : a[j] = 0
        IN  IF (a[i] = 0) # carry THEN 1 ELSE 0]

\* (unsigned char) a
Low8(a) ==
    a[0] + 2 * a[1] + 4 * a[2] + 8 * a[3] + 16 * a[4] + 32 * a[5]
    + 64 * a[6] + 128 * a[7]

RECURSIVE BitOr(_, _)
BitOr(a, b) ==
    IF a = 0 THEN b ELSE IF b = 0 THEN a
    ELSE (IF a % 2 = 1 \/ b % 2 = 1 THEN 1 ELSE 0)
         + 2 * BitOr(a \div 2, b \div 2)

RECURSIVE BitAnd(_, _)
BitAnd(a, b) ==
    IF a = 0 \/ b = 0 THEN 0
    ELSE (IF a % 2 = 1 /\ b % 2 = 1 THEN 1 ELSE 0)
         + 2 * BitAnd(a \div 2, b \div 2)

RECURSIVE BitXor(_, _)
BitXor(a, b) ==
    IF a = 0 THEN b ELSE IF b = 0 THEN a
    ELSE (IF a % 2 # b % 2 THEN 1 ELSE 0) + 2 * BitXor(a \div 2, b \div 2)

\* diff without the return value of ttls_pk_decrypt()
pms_diff_r_ignored(d, ver) ==
    Or32(Or32(Bits32(BitXor(d.peer_pmslen, PMS_SZ)),
              Bits32(BitXor(d.peer_pms[1], ver[1]))),
         Bits32(BitXor(d.peer_pms[2], ver[2])))

\* diff = r; diff |= peer_pmslen ^ 48; diff |= peer_pms[0] ^ ver[0];
\* diff |= peer_pms[1] ^ ver[1]
pms_diff(d, ver) ==
    Or32(Or32(Or32(Bits32(d.r), Bits32(BitXor(d.peer_pmslen, PMS_SZ))),
              Bits32(BitXor(d.peer_pms[1], ver[1]))),
         Bits32(BitXor(d.peer_pms[2], ver[2])))

\* mask = -((diff | -diff) >> (sizeof(unsigned int) * 8 - 1))
pms_mask(diff) == Low8(Neg32(Bits32(Or32(diff, Neg32(diff))[31])))

\* ttls_own_key(): the key of the certificate picked for the handshake
ttls_own_key(t) == conf.key_cert[t.key_cert]

\* p is the message body; d is what ttls_rnd() and ttls_pk_decrypt() give:
\* fake_pms, r, peer_pmslen, peer_pms
ttls_parse_encrypted_pms(t, p, d) ==
    LET len == ttls_own_key(t).len
        ver == <<TTLS_MAX_MAJOR_VERSION, conf.max_minor_ver>>
        mask == pms_mask(pms_diff(d, ver))
    IN  IF ~ttls_pk_can_do(ttls_own_key(t), TTLS_PK_RSA)
        THEN Ret(t, "TTLS_ERR_PRIVATE_KEY_REQUIRED")
        ELSE IF \/ Len(p) < 2
                \/ p[1] # (len \div 256) % 256
                \/ p[2] # len % 256
                \/ 2 + len # Len(p)
        THEN Ret(t, "TTLS_ERR_BAD_HS_CLIENT_KEY_EXCHANGE")
        ELSE Ret([t EXCEPT
                    !.pmslen = PMS_SZ,
                    !.premaster =
                        [i \in 1..PMS_SZ |->
                            BitOr(BitAnd(mask, d.fake_pms[i]),
                                  BitAnd(255 - mask, d.peer_pms[i]))]],
                 T_OK)

\* ttls_parse_client_dh_public() and the p != end test after it
ttls_parse_client_dh_public(t, p, e) ==
    IF Len(p) < 2 THEN Ret(t, "TTLS_ERR_BAD_HS_CLIENT_KEY_EXCHANGE")
    ELSE IF 2 + p[1] * 256 + p[2] > Len(p)
    THEN Ret(t, "TTLS_ERR_BAD_HS_CLIENT_KEY_EXCHANGE")
    ELSE IF e.fail = "parse"
    THEN Ret(t, "TTLS_ERR_BAD_HS_CLIENT_KEY_EXCHANGE_RP")
    ELSE IF 2 + p[1] * 256 + p[2] # Len(p)
    THEN Ret(t, "TTLS_ERR_BAD_HS_CLIENT_KEY_EXCHANGE")
    ELSE Ret(t, T_OK)

\* the part of ttls_parse_client_key_exchange() that works on the whole
\* message p
cke_body(t, p, e) ==
    LET kx == t.ci.key_exchange
        t1 == IF kx \in {"ECDHE_RSA", "ECDHE_ECDSA"}
              THEN IF e.fail = "parse"
                   THEN Ret(t, "TTLS_ERR_BAD_HS_CLIENT_KEY_EXCHANGE_RP")
                   ELSE Ret([t EXCEPT !.pmslen = PMS_SZ,
                                      !.premaster = Rep(PMS_SZ, 1)], T_OK)
              ELSE IF kx = "DHE_RSA"
              THEN LET t2 == ttls_parse_client_dh_public(t, p, e)
                   IN  IF t2.r # T_OK THEN t2
                       ELSE Ret([t EXCEPT !.pmslen = PMS_SZ,
                                          !.premaster = Rep(PMS_SZ, 1)],
                                T_OK)
              ELSE IF kx = "RSA" THEN ttls_parse_encrypted_pms(t, p, e.dec)
              ELSE Ret(t, TTLS_ERR_INTERNAL_ERROR)
    IN  IF t1.r # T_OK THEN t1
        ELSE LET t3 == ttls_derive_keys(t1, e)
             IN  IF t3.r = T_OK THEN Log(t3, <<"rx", "ClientKeyExchange">>) ELSE t3

\* ttls_parse_client_key_exchange() without the test of the handshake type
ttls_parse_client_key_exchange_any_type(t, buf, hh_len, off, e) ==
    LET len == Len(buf)
    IN  IF t.rlen + len < t.hslen
        THEN IF t.hslen > HS_RBUF_SZ
             THEN Ret(t, "TTLS_ERR_BAD_HS_CLIENT_KEY_EXCHANGE")
             ELSE Ret([t EXCEPT !.key_exchange_tmp = MemCpy(@, t.rlen, buf),
                                !.read = @ + len, !.rlen = @ + len],
                      T_POSTPONE)
        ELSE IF t.rlen # 0
        THEN LET n == t.hslen - t.rlen
                 t1 == [t EXCEPT !.key_exchange_tmp =
                                     MemCpy(@, t.rlen, SubSeq(buf, 1, n)),
                                 !.read = @ + n, !.rlen = @ + n]
             IN  cke_body(ttls_update_checksum(t1, hh_len, off, n),
                          SubSeq(t1.key_exchange_tmp, 1, t.hslen), e)
        ELSE cke_body(ttls_update_checksum([t EXCEPT !.read = @ + t.hslen],
                                           hh_len, off, t.hslen),
                      SubSeq(buf, 1, t.hslen), e)

\* ttls_parse_client_key_exchange() with the checksum computed at the end of
\* the function, as the other parsers do
ttls_parse_client_key_exchange_checksum_last(t, buf, hh_len, off, e) ==
    LET len == Len(buf)
    IN  IF t.hstype # "ClientKeyExchange"
        THEN Ret(t, "TTLS_ERR_BAD_HS_CLIENT_KEY_EXCHANGE")
        ELSE IF t.rlen + len < t.hslen
        THEN IF t.hslen > HS_RBUF_SZ
             THEN Ret(t, "TTLS_ERR_BAD_HS_CLIENT_KEY_EXCHANGE")
             ELSE Ret([t EXCEPT !.key_exchange_tmp = MemCpy(@, t.rlen, buf),
                                !.read = @ + len, !.rlen = @ + len],
                      T_POSTPONE)
        ELSE IF t.rlen # 0
        THEN LET n == t.hslen - t.rlen
                 t1 == [t EXCEPT !.key_exchange_tmp =
                                     MemCpy(@, t.rlen, SubSeq(buf, 1, n)),
                                 !.read = @ + n, !.rlen = @ + n]
             IN  ttls_update_checksum(
                     cke_body(t1, SubSeq(t1.key_exchange_tmp, 1, t.hslen), e),
                     hh_len, off, n)
        ELSE ttls_update_checksum(
                 cke_body([t EXCEPT !.read = @ + t.hslen],
                          SubSeq(buf, 1, t.hslen), e),
                 hh_len, off, t.hslen)

ttls_parse_client_key_exchange(t, buf, hh_len, off, e) ==
    LET len == Len(buf)
    IN  IF t.hstype # "ClientKeyExchange"
        THEN Ret(t, "TTLS_ERR_BAD_HS_CLIENT_KEY_EXCHANGE")
        ELSE IF t.rlen + len < t.hslen
        THEN IF t.hslen > HS_RBUF_SZ
             THEN Ret(t, "TTLS_ERR_BAD_HS_CLIENT_KEY_EXCHANGE")
             ELSE Ret([t EXCEPT !.key_exchange_tmp = MemCpy(@, t.rlen, buf),
                                !.read = @ + len, !.rlen = @ + len],
                      T_POSTPONE)
        ELSE IF t.rlen # 0
        THEN LET n == t.hslen - t.rlen
                 t1 == [t EXCEPT !.key_exchange_tmp =
                                     MemCpy(@, t.rlen, SubSeq(buf, 1, n)),
                                 !.read = @ + n, !.rlen = @ + n]
             IN  cke_body(ttls_update_checksum(t1, hh_len, off, n),
                          SubSeq(t1.key_exchange_tmp, 1, t.hslen), e)
        ELSE cke_body(ttls_update_checksum([t EXCEPT !.read = @ + t.hslen],
                                           hh_len, off, t.hslen),
                      SubSeq(buf, 1, t.hslen), e)

ttls_parse_certificate_verify(t, buf, e) ==
    LET bad == Ret(t, "TTLS_ERR_BAD_HS_CERTIFICATE_VERIFY")
    IN  IF t.hstype # "CertificateVerify" THEN bad
        ELSE IF t.hslen > Len(buf) THEN bad
        ELSE IF 2 > t.hslen THEN bad
        ELSE IF ttls_md_alg_from_hash(B(buf, 0)) = TTLS_MD_NONE THEN bad
        ELSE IF ttls_pk_alg_from_sig(B(buf, 1)) = TTLS_PK_NONE THEN bad
        ELSE IF t.peer_cert # ttls_pk_alg_from_sig(B(buf, 1)) THEN bad
        ELSE IF 4 > t.hslen THEN bad
        ELSE IF 4 + B(buf, 2) * 256 + B(buf, 3) # t.hslen THEN bad
        ELSE IF e.fail = "parse"
        THEN Ret([t EXCEPT !.read = @ + t.hslen], "TTLS_ERR_PK_VERIFY")
        ELSE Ret(Log([t EXCEPT !.read = @ + t.hslen],
                     <<"rx", "CertificateVerify">>), T_OK)

(***************************************************************************)
(* ttls_handshake_server_step()                                            *)
(***************************************************************************)
RECURSIVE step_fsm(_, _, _, _, _)
\* T_FSM_START(ttls_state(tls)) { ... } T_FSM_FINISH(); return r
step_fsm(t, buf, hh_len, off, e) ==
    CASE t.state = "CLIENT_HELLO" ->
           LET t1 == ttls_parse_client_hello(LogSt(t, t.state), buf, hh_len,
                                             off, e)
           IN  IF t1.r # T_OK THEN t1
               ELSE ttls_handshake_server_hello(
                        [Log(t1, <<"rx", "ClientHello">>) EXCEPT
                            !.state = "SERVER_HELLO"], e)
      [] t.state = "SERVER_HELLO" -> ttls_handshake_server_hello(t, e)
      [] t.state = "CLIENT_CERTIFICATE" ->
           LET t1 == ttls_parse_certificate(LogSt(t, t.state), buf, hh_len,
                                            off, e)
           IN  IF t1.r # T_OK THEN t1
               ELSE [t1 EXCEPT !.state = "CLIENT_KEY_EXCHANGE"]
      [] t.state = "CLIENT_KEY_EXCHANGE" ->
           LET t1 == ttls_parse_client_key_exchange(LogSt(t, t.state), buf,
                                                    hh_len, off, e)
           IN  IF t1.r # T_OK THEN t1
               ELSE [t1 EXCEPT !.state = IF t1.peer_cert = TTLS_PK_NONE
                                         THEN "CLIENT_CHANGE_CIPHER_SPEC"
                                         ELSE "CERTIFICATE_VERIFY"]
      [] t.state = "CERTIFICATE_VERIFY" ->
           LET t1 == ttls_parse_certificate_verify(LogSt(t, t.state), buf, e)
           IN  IF t1.r # T_OK THEN t1
               ELSE [t1 EXCEPT !.state = "CLIENT_CHANGE_CIPHER_SPEC"]
      [] t.state = "CLIENT_CHANGE_CIPHER_SPEC" ->
           LET t1 == ttls_parse_change_cipher_spec(LogSt(t, t.state), buf,
                                                   hh_len, off, e)
           IN  IF t1.r # T_OK THEN t1
               ELSE [t1 EXCEPT !.state = "CLIENT_FINISHED"]
      [] t.state = "CLIENT_FINISHED" ->
           LET t1 == ttls_parse_finished(LogSt(t, t.state), buf, hh_len, off,
                                         e)
           IN  IF t1.r # T_OK THEN t1
               ELSE step_fsm([t1 EXCEPT !.state =
                                  IF t1.resume THEN "HANDSHAKE_WRAPUP"
                                  ELSE "SERVER_CHANGE_CIPHER_SPEC"],
                             buf, hh_len, off, e)
      [] t.state = "SERVER_CHANGE_CIPHER_SPEC" ->
           LET t1 == ttls_handshake_finished(t, e)
           IN  IF t1.r # T_OK THEN t1
               ELSE step_fsm(t1, buf, hh_len, off, e)
      [] t.state = "HANDSHAKE_WRAPUP" ->
           \* ttls_handshake_wrapup(); falls through to HANDSHAKE_OVER
           LogSt([LogSt(t, t.state) EXCEPT !.state = "HANDSHAKE_OVER"],
                 "HANDSHAKE_OVER")
      [] OTHER -> t

ttls_handshake_server_step(t, buf, hh_len, off, e) ==
    step_fsm([t EXCEPT !.r = T_OK, !.read = 0], buf, hh_len, off, e)

(***************************************************************************)
(* The peer and the caller of the state machine.                           *)
(***************************************************************************)
\* a ClientHello extension on the wire
Ext(type, body) == U16(type) \o U16(Len(body)) \o body

\* a ClientHello body; exts is the list of encoded extensions, has_ext
\* tells whether the extensions-length field is there at all
ClientHello(sid, suites, comps, has_ext, exts) ==
    <<TTLS_MAJOR_VERSION_3, TTLS_MINOR_VERSION_3>>
    \o [i \in 1..HS_RND_SZ |-> 100 + i]
    \o <<Len(sid)>> \o sid
    \o U16(2 * Len(suites)) \o Flat([i \in 1..Len(suites) |-> U16(suites[i])])
    \o <<Len(comps)>> \o comps
    \o (IF has_ext THEN U16(Len(Flat(exts))) \o Flat(exts) ELSE <<>>)

GoodTicket == <<201, 202>>
BadTicket == <<203>>

ExtByKind(k) ==
    CASE k = "sig" -> Ext(TTLS_TLS_EXT_SIG_ALG, <<0, 2, 4, 1>>)
      [] k = "ems" -> Ext(TTLS_TLS_EXT_EXTENDED_MASTER_SECRET, <<>>)
      [] k = "ticket" -> Ext(TTLS_TLS_EXT_SESSION_TICKET, GoodTicket)
      [] k = "badticket" -> Ext(TTLS_TLS_EXT_SESSION_TICKET, BadTicket)
      [] k = "noticket" -> Ext(TTLS_TLS_EXT_SESSION_TICKET, <<>>)
      [] k = "unknown" -> Ext(21, <<0, 0, 0>>)

ExtKinds == {"ems", "ticket", "badticket", "noticket", "unknown"}

SuiteAlphabet == {TLS_RSA_WITH_AES_128_GCM_SHA256,
                  TLS_DHE_RSA_WITH_AES_128_GCM_SHA256,
                  TTLS_FALLBACK_SCSV_VALUE}

ExtList(kinds) == [i \in 1..Len(kinds) |-> ExtByKind(kinds[i])]

\* the ClientHello bodies of the model: every suite list with the one
\* extension a TLS 1.2 client always sends, and every extension list with
\* one suite, with and without a session id
Hellos ==
    {ClientHello(<<>>, ss, <<TTLS_COMPRESS_NULL>>, TRUE, ExtList(<<"sig">>)) :
        ss \in SeqsUpTo(SuiteAlphabet, MaxSuites) \ {<<>>}}
    \cup {ClientHello(sid, <<TLS_RSA_WITH_AES_128_GCM_SHA256>>,
                      <<TTLS_COMPRESS_NULL>>, TRUE,
                      ExtList(<<"sig">> \o ks)) :
            sid \in {<<>>, <<7, 8>>}, ks \in SeqsUpTo(ExtKinds, MaxExts)}
    \cup {ClientHello(<<>>, <<TLS_RSA_WITH_AES_128_GCM_SHA256>>,
                      <<1, TTLS_COMPRESS_NULL>>, TRUE, ExtList(ks)) :
            ks \in SeqsUpTo(ExtKinds, 1)}
    \cup {ClientHello(<<>>, <<TLS_RSA_WITH_AES_128_GCM_SHA256,
                             TLS_DHE_RSA_WITH_AES_128_GCM_SHA256>>,
                      <<TTLS_COMPRESS_NULL>>, FALSE, <<>>)}

\* the server configurations of the model
Cfg(minor, tick, bug, auth, suites) ==
    [max_minor_ver |-> minor,
     f_ticket |-> tick, tickets |-> {GoodTicket},
     f_sni |-> TRUE, vhosts |-> {<<97>>}, default_vhost |-> TRUE,
     alpn_list |-> <<<<104, 50>>>>,
     ciphersuite_list |-> suites,
     key_cert |-> <<[pk |-> TTLS_PK_RSA, usage_ok |-> TRUE,
                     grp_id |-> TTLS_ECP_DP_NONE, len |-> 2]>>,
     dhm_set |-> TRUE,
     authmode |-> auth,
     config_bug |-> bug]

Confs ==
    {Cfg(TTLS_MINOR_VERSION_3, TRUE, TRUE, "TTLS_VERIFY_NONE",
         <<TLS_RSA_WITH_AES_128_GCM_SHA256,
           TLS_DHE_RSA_WITH_AES_128_GCM_SHA256>>),
     Cfg(TTLS_MINOR_VERSION_3, TRUE, FALSE, "TTLS_VERIFY_NONE",
         <<TLS_DHE_RSA_WITH_AES_128_GCM_SHA256,
           TLS_RSA_WITH_AES_128_GCM_SHA256>>),
     Cfg(TTLS_MINOR_VERSION_4, FALSE, TRUE, "TTLS_VERIFY_REQUIRED",
         <<TLS_ECDHE_RSA_WITH_AES_128_GCM_SHA256,
           TLS_RSA_WITH_AES_128_GCM_SHA256>>)}

\* the TlsCtx of a fresh connection (ttls_ctx_init() zeroes it)
InitTls ==
    [state |-> "CLIENT_HELLO", sub |-> "CH_HS_VER",
     r |-> T_OK, read |-> 0, alerts |-> <<>>,
     hstype |-> "none", hslen |-> 0, rlen |-> 0,
     major |-> 0, minor |-> 0, randbytes |-> Rep(HS_RND_SZ, 0),
     sess_id_len |-> 0, sess_id |-> Rep(SESS_ID_SZ, 0),
     sess_ciphersuite |-> 0, sess_from_ticket |-> FALSE,
     cs_total_len |-> 0, cs_cur_len |-> 0, css |-> Rep(CSS_MAX, 0),
     compr_n |-> 0, compr_has_null |-> FALSE,
     ext_rem_sz |-> 0, ext_type |-> 0, ext_sz |-> 0,
     ext |-> Rep(HS_RBUF_SZ, 0),
     peer_conf |-> FALSE, sni_authmode |-> "TTLS_VERIFY_UNSET",
     hash_algs |-> [k \in {TTLS_PK_RSA, TTLS_PK_ECDSA} |-> TTLS_MD_NONE],
     curves_ext |-> FALSE, curves |-> Rep(TTLS_ECP_DP_MAX, TTLS_ECP_DP_NONE),
     point_format |-> TTLS_ECP_PF_UNCOMPRESSED, cli_exts |-> FALSE,
     ecdh_grp |-> TTLS_ECP_DP_NONE,
     extended_ms |-> FALSE, new_session_ticket |-> FALSE, resume |-> FALSE,
     alpn_chosen |-> 0, secure_renegotiation |-> FALSE,
     ci |-> NoSuite, key_cert |-> 0, keys_derived |-> FALSE,
     session_hash |-> <<>>,
     peer_cert |-> TTLS_PK_NONE, pmslen |-> 0, premaster |-> Rep(PMS_SZ, 0),
     key_exchange_tmp |-> Rep(HS_RBUF_SZ, 0),
     cksum |-> <<>>, log |-> <<>>, sgt |-> <<>>, pg |-> 0, wire |-> <<>>,
     ccs_written |-> FALSE, crashed |-> FALSE]

\* what the externals give when nothing fails
PmsBytes(a, b, x) == <<a, b>> \o Rep(PMS_SZ - 2, x)

Decrypted(r, n, pms) ==
    [r |-> r, peer_pmslen |-> n, peer_pms |-> pms,
     fake_pms |-> Rep(PMS_SZ, 85)]

NoInput ==
    [fail |-> "none", rnd |-> 1,
     dec |-> Decrypted(0, PMS_SZ, PmsBytes(TTLS_MAX_MAJOR_VERSION,
                                          TTLS_MINOR_VERSION_3, 7))]

RndVals == {1, 2}

\* the outcomes the externals reached from a state can have
Inputs(st) ==
    CASE st \in {"CLIENT_HELLO", "SERVER_HELLO"} ->
           {[NoInput EXCEPT !.rnd = x] : x \in RndVals}
           \cup {[NoInput EXCEPT !.fail = f] :
                   f \in {"ttls_match_sig_hashes", "pg_skb_alloc",
                          "ttls_derive_keys", "ttls_write_certificate",
                          "ttls_make_params", "ttls_pk_sign",
                          "__ttls_send_record"}}
      [] st = "CLIENT_CERTIFICATE" ->
           {[NoInput EXCEPT !.fail = f] :
               f \in {"none", "parse", "empty_certificate"}}
      [] st = "CLIENT_KEY_EXCHANGE" ->
           {[NoInput EXCEPT !.fail = f, !.dec = d] :
               f \in {"none", "parse", "ttls_derive_keys"},
               d \in {NoInput.dec,
                      Decrypted(0 - 16640, 0, Rep(PMS_SZ, 0))}}
      [] st \in {"CLIENT_FINISHED", "SERVER_CHANGE_CIPHER_SPEC"} ->
           {[NoInput EXCEPT !.fail = f] :
               f \in {"none", "parse", "pg_skb_alloc", "f_ticket_write",
                      "ttls_write_finished", "__ttls_send_record"}}
      [] OTHER -> {[NoInput EXCEPT !.fail = f] : f \in {"none", "parse"}}

\* the messages the peer may send after (or instead of) its ClientHello
Filler == [i \in 1..MaxBody |-> 8]

ClientMsgs ==
    {[type |-> "ClientHello", body |-> hello],
     [type |-> "Certificate", body |-> Filler],
     [type |-> "ClientKeyExchange", body |-> <<0, 2, 9, 9>>],
     [type |-> "ClientKeyExchange", body |-> <<0, 1, 5>>],
     [type |-> "CertificateVerify", body |-> <<4, 1, 0, 1, 6>>],
     [type |-> "CertificateVerify", body |-> <<0, 2, 9, 9>>],
     [type |-> "ChangeCipherSpec", body |-> <<1>>],
     [type |-> "Finished", body |-> Filler]}

\* ttls_recv() on a handshake header: type and length of the new message
recv_header(t, m) ==
    [t EXCEPT !.hstype = m.type, !.hslen = Len(m.body), !.rlen = 0]

\* ttls_recv() hashes the chunks of a message the step asked more data for
recv_chunk_done(t, hh_len, off, n) ==
    IF t.r = T_POSTPONE /\ t.hstype # "ChangeCipherSpec"
    THEN ttls_update_checksum(t, hh_len, off, n) ELSE t

\* one call of the state machine for the next k bytes of the message in
\* flight, from the context t the connection is in
RecvResult(t, m, k, e) ==
    LET hh_len == IF m.pos = 0 THEN 4 ELSE 0
        t0 == IF m.pos = 0 THEN recv_header(t, m) ELSE t
        buf == SubSeq(m.body, m.pos + 1, m.pos + k)
        t1 == recv_chunk_done(
                  ttls_handshake_server_step(t0, buf, hh_len, m.pos, e),
                  hh_len, m.pos, k)
    IN  \* *read is the caller's local variable: it is used up by now
        [t1 EXCEPT !.read = 0]

\* the ClientHello bodies the whole handshake is explored from: a plain
\* one, one with a session id, one asking for a ticket, one resuming, one
\* without the extensions block
HsHellos ==
    {ClientHello(sid, <<TLS_DHE_RSA_WITH_AES_128_GCM_SHA256,
                       TLS_RSA_WITH_AES_128_GCM_SHA256>>,
                 <<TTLS_COMPRESS_NULL>>, TRUE, ExtList(<<"sig">> \o ks)) :
        sid \in {<<>>, <<7, 8>>},
        ks \in {<<>>, <<"noticket">>, <<"ticket">>}}
    \cup {ClientHello(<<>>, <<TLS_RSA_WITH_AES_128_GCM_SHA256,
                             TLS_DHE_RSA_WITH_AES_128_GCM_SHA256>>,
                      <<TTLS_COMPRESS_NULL>>, FALSE, <<>>)}

Init ==
    /\ conf \in Confs
    /\ hello \in HsHellos
    /\ tls = InitTls
    /\ inmsg = [type |-> "none", body |-> <<>>, pos |-> 0, seq |-> 0,
                one_byte |-> TRUE]
    /\ inp = NoInput
    /\ closed = FALSE
    /\ mpi = NoMpi

\* the peer starts its next message
Send ==
    /\ ~closed
    /\ tls.state # "HANDSHAKE_OVER"
    /\ inmsg.pos = Len(inmsg.body)
    /\ \E m \in ClientMsgs :
          inmsg' = [type |-> m.type, body |-> m.body, pos |-> 0,
                    seq |-> inmsg.seq + 1, one_byte |-> TRUE]
    /\ UNCHANGED <<conf, tls, hello, inp, closed, mpi>>

\* a caller that goes on with a connection whatever the step returned
conn_drop_never(r) == FALSE

\* the caller of the step closes the connection on a fatal return value and
\* calls the step no more for it
conn_drop(r) == Fatal(r)

\* the record layer hands the next chunk to ttls_handshake_server_step(),
\* whose externals behave as one of ins says; a fatal return makes the
\* caller drop the connection
RecvFrom(ins) ==
    /\ ~closed
    /\ tls.state # "HANDSHAKE_OVER"
    /\ inmsg.pos < Len(inmsg.body)
    /\ \E k \in 1..(Len(inmsg.body) - inmsg.pos) :
         \E e \in (IF inmsg.pos + k = Len(inmsg.body)
                      \/ tls.state = "SERVER_CHANGE_CIPHER_SPEC"
                   THEN ins ELSE {NoInput}) :
            /\ tls' = RecvResult(tls, inmsg, k, e)
            /\ inmsg' = [inmsg EXCEPT !.pos = @ + k,
                                      !.one_byte = @ /\ k = 1]
            /\ inp' = e
            /\ closed' = conn_drop(tls'.r)
    /\ UNCHANGED <<conf, hello, mpi>>

Recv == RecvFrom(Inputs(tls.state))

Next == Send \/ Recv

Spec == Init /\ [][Next]_vars

(***************************************************************************)
(* The first message alone, over the wide family of ClientHello bodies.    *)
(***************************************************************************)
\* the externals of the first flight: two values of the random generator,
\* a failed allocation and a failed send
HelloInputs ==
    {[NoInput EXCEPT !.rnd = x] : x \in RndVals}
    \cup {[NoInput EXCEPT !.fail = f] : f \in {"pg_skb_alloc",
                                               "__ttls_send_record"}}

\* the configurations the first flight is explored under: the ones that
\* differ in the version limit, the tickets and the suite list
HelloConfs == {c \in Confs : ~c.config_bug \/ ~c.f_ticket}

InitHello ==
    /\ conf \in HelloConfs
    /\ hello \in Hellos
    /\ tls = InitTls
    /\ inmsg = [type |-> "none", body |-> <<>>, pos |-> 0, seq |-> 0,
                one_byte |-> TRUE]
    /\ inp = NoInput
    /\ closed = FALSE
    /\ mpi = NoMpi

SendFirst == inmsg.seq = 0 /\ Send

RecvHello == RecvFrom(HelloInputs)

NextHello == SendFirst \/ RecvHello

SpecHello == InitHello /\ [][NextHello]_vars

(***************************************************************************)
(* Chunked delivery of the ClientHello.                                    *)
(***************************************************************************)
\* the connection's first message, a ClientHello, before any byte of it
FirstHello ==
    [type |-> "ClientHello", body |-> hello, pos |-> 0, seq |-> 1,
     one_byte |-> TRUE]

\* what the step leaves behind when it gets the whole body in one slice and
\* the externals behave as e says
OneSlice(e) == RecvResult(InitTls, FirstHello, Len(hello), e)

\* a ClientHello the server answers ok when it comes in one slice
WellFormedHello == OneSlice(NoInput).r = T_OK

InFirstHello == inmsg.type = "ClientHello" /\ inmsg.seq = 1

\* C1: for a well-formed ClientHello split into chunks in any way, every
\* call that does not deliver the last byte returns T_POSTPONE and leaves
\* the top-level state alone, and the call that delivers the last byte
\* leaves the context (parsed fields, chosen suite, next state, transcript,
\* what went to the record layer, return value) exactly as the delivery of
\* the same body in one slice does, and the return value is ok.  When an
\* external call of the last step fails (allocation, key derivation, the
\* send), both deliveries fail alike: same return value, alerts, top-level
\* state and output.
C1_ChunkedEqualsOneSlice ==
    (InFirstHello /\ WellFormedHello /\ inmsg.pos > 0) =>
        IF inmsg.pos < Len(hello)
        THEN tls.r = T_POSTPONE /\ tls.state = "CLIENT_HELLO"
        ELSE IF inp.fail = "none"
        THEN tls = OneSlice(inp) /\ tls.r = T_OK
        ELSE /\ tls.r = OneSlice(inp).r
             /\ tls.alerts = OneSlice(inp).alerts
             /\ tls.state = OneSlice(inp).state
             /\ tls.wire = OneSlice(inp).wire

\* C1 witness: a ClientHello with a session-ticket extension was delivered
\* one byte per call and the last byte was answered ok
C1_Witness ==
    /\ InFirstHello /\ WellFormedHello
    /\ inmsg.one_byte /\ inmsg.pos = Len(hello) /\ Len(hello) > 50
    /\ tls.r = T_OK /\ tls.new_session_ticket
    /\ Len(tls.wire) = 1

(***************************************************************************)
(* The order of the top-level states.                                      *)
(***************************************************************************)
StateOrder ==
    <<"CLIENT_HELLO", "SERVER_HELLO", "SERVER_CERTIFICATE",
      "SERVER_KEY_EXCHANGE", "SERVER_HELLO_DONE", "CLIENT_CERTIFICATE",
      "CLIENT_KEY_EXCHANGE", "CERTIFICATE_VERIFY",
      "CLIENT_CHANGE_CIPHER_SPEC", "CLIENT_FINISHED",
      "SERVER_CHANGE_CIPHER_SPEC", "SERVER_FINISHED", "HANDSHAKE_WRAPUP",
      "HANDSHAKE_OVER">>

Rank(st) == CHOOSE i \in 1..Len(StateOrder) : StateOrder[i] = st

\* the message a state parses or writes; <<>> for a state without one
StateMsg(st, t) ==
    CASE st = "CLIENT_HELLO" -> <<"rx", "ClientHello">>
      [] st = "SERVER_HELLO" -> <<"tx", "ServerHello">>
      [] st = "SERVER_CERTIFICATE" -> <<"tx", "Certificate">>
      [] st = "SERVER_KEY_EXCHANGE" ->
           IF ttls_ciphersuite_no_pfs(t.ci) THEN <<>>
           ELSE <<"tx", "ServerKeyExchange">>
      [] st = "SERVER_HELLO_DONE" -> <<"tx", "ServerHelloDone">>
      [] st = "CLIENT_CERTIFICATE" -> <<"rx", "Certificate">>
      [] st = "CLIENT_KEY_EXCHANGE" -> <<"rx", "ClientKeyExchange">>
      [] st = "CERTIFICATE_VERIFY" -> <<"rx", "CertificateVerify">>
      [] st = "CLIENT_CHANGE_CIPHER_SPEC" -> <<"rx", "ChangeCipherSpec">>
      [] st = "CLIENT_FINISHED" -> <<"rx", "Finished">>
      [] st = "SERVER_CHANGE_CIPHER_SPEC" -> <<"tx", "ChangeCipherSpec">>
      [] st = "SERVER_FINISHED" -> <<"tx", "Finished">>
      [] OTHER -> <<>>

\* the states entered so far are in the order of StateOrder
EnteredInOrder(t) ==
    \A i, j \in 1..Len(t.log) :
        (i < j /\ t.log[i][1] = "st" /\ t.log[j][1] = "st")
            => Rank(t.log[i][2]) < Rank(t.log[j][2])

\* a state that was entered and is behind the one entered next, or behind
\* tls->state, had its message parsed or written after it was entered
LeftWhenDone(t) ==
    \A i \in 1..Len(t.log) :
        (/\ t.log[i][1] = "st"
         /\ StateMsg(t.log[i][2], t) # <<>>
         /\ \/ \E j \in (i + 1)..Len(t.log) : t.log[j][1] = "st"
            \/ Rank(t.log[i][2]) < Rank(t.state))
            => \E k \in (i + 1)..Len(t.log) :
                  /\ t.log[k] = StateMsg(t.log[i][2], t)
                  /\ \A j \in (i + 1)..k : t.log[j][1] # "st"

\* the client's Finished was accepted, then the server's Finished was
\* written and the send that carried it succeeded
FinishedBothWays(t) ==
    \E i, j, k \in 1..Len(t.log) :
        /\ i < j /\ j < k
        /\ t.log[i] = <<"rx", "Finished">>
        /\ t.log[j] = <<"tx", "Finished">>
        /\ t.log[k] = <<"send", "ok">>

\* C2: in a handshake that is not resumed the top-level state only moves
\* forward in the order CLIENT_HELLO, SERVER_HELLO, SERVER_CERTIFICATE,
\* SERVER_KEY_EXCHANGE, SERVER_HELLO_DONE, [CLIENT_CERTIFICATE],
\* CLIENT_KEY_EXCHANGE, [CERTIFICATE_VERIFY], CLIENT_CHANGE_CIPHER_SPEC,
\* CLIENT_FINISHED, SERVER_CHANGE_CIPHER_SPEC, SERVER_FINISHED,
\* HANDSHAKE_WRAPUP, HANDSHAKE_OVER: tls->state never goes back from one
\* call to the next, the states entered are entered in that order, a state
\* is left only after its message was parsed or written, and
\* HANDSHAKE_OVER is reached only after the client's Finished was accepted
\* and the server's Finished went to the record layer.
C2_StateOrder ==
    /\ [](~tls.resume =>
            /\ EnteredInOrder(tls)
            /\ LeftWhenDone(tls)
            /\ (tls.state = "HANDSHAKE_OVER" => FinishedBothWays(tls)))
    /\ [][~tls'.resume => Rank(tls'.state) >= Rank(tls.state)]_vars

\* C2 witness: a handshake with client authentication that was not resumed
\* went through every state and is over
C2_Witness ==
    /\ ~tls.resume /\ tls.state = "HANDSHAKE_OVER"
    /\ \E i \in 1..Len(tls.log) : tls.log[i] = <<"st", "CLIENT_CERTIFICATE">>
    /\ \E i \in 1..Len(tls.log) : tls.log[i] = <<"st", "CERTIFICATE_VERIFY">>
    /\ \E i \in 1..Len(tls.log) : tls.log[i] = <<"st", "SERVER_KEY_EXCHANGE">>

(***************************************************************************)
(* The resumed handshake.                                                  *)
(***************************************************************************)
\* the kinds of the messages of the sends that succeeded, in order
RECURSIVE SentTypes(_)
SentTypes(wire) ==
    IF wire = <<>> THEN <<>>
    ELSE LET w == wire[Len(wire)]
         IN  SentTypes(SubSeq(wire, 1, Len(wire) - 1))
             \o (IF w.ok THEN [k \in 1..Len(w.msgs) |-> w.msgs[k].type]
                 ELSE <<>>)

\* the step that took the last byte of the connection's ClientHello is done
\* and none of its externals failed
HelloAnswered ==
    InFirstHello /\ inmsg.pos = Len(hello) /\ inp.fail = "none"

\* C3: when the ClientHello carried a ticket that f_ticket_parse accepted,
\* the step that writes ServerHello derives the keys, hands a ServerHello
\* and no Certificate, ServerKeyExchange or ServerHelloDone to the record
\* layer and goes on to SERVER_CHANGE_CIPHER_SPEC; the server's
\* ChangeCipherSpec and Finished follow the ServerHello, the client's
\* ChangeCipherSpec and Finished are expected after them, and the handshake
\* is over only after all of these.
C3_ResumedFlight ==
    /\ (tls.resume /\ HelloAnswered) =>
          /\ tls.r = T_OK
          /\ tls.keys_derived
          /\ tls.state \in {"SERVER_CHANGE_CIPHER_SPEC",
                            "CLIENT_CHANGE_CIPHER_SPEC"}
          /\ SentTypes(tls.wire) \in {<<"ServerHello">>,
                                      <<"ServerHello", "Finished">>}
    /\ (tls.resume /\ tls.state = "HANDSHAKE_OVER") =>
          /\ SentTypes(tls.wire) = <<"ServerHello", "Finished">>
          /\ tls.ccs_written
          /\ \E i, j \in 1..Len(tls.log) :
                /\ i < j
                /\ tls.log[i] = <<"rx", "ChangeCipherSpec">>
                /\ tls.log[j] = <<"rx", "Finished">>

(***************************************************************************)
(* Messages out of order, and what follows a fatal return value.           *)
(***************************************************************************)
\* the handshake type a state takes
Expected(st) ==
    CASE st = "CLIENT_HELLO" -> "ClientHello"
      [] st = "CLIENT_KEY_EXCHANGE" -> "ClientKeyExchange"
      [] st = "CERTIFICATE_VERIFY" -> "CertificateVerify"
      [] OTHER -> "none"

\* this step is a call of ttls_handshake_server_step() on the message in
\* flight
StepTaken == inmsg'.seq = inmsg.seq /\ inmsg'.pos > inmsg.pos

\* C4: when the message delivered in CLIENT_HELLO, CLIENT_KEY_EXCHANGE or
\* CERTIFICATE_VERIFY is not a ClientHello, a ClientKeyExchange or a
\* CertificateVerify respectively, ttls_handshake_server_step() returns a
\* fatal error and the top-level state stays as it was.
C4_WrongTypeIsFatal ==
    [][(/\ StepTaken
        /\ Expected(tls.state) # "none"
        /\ inmsg.type # Expected(tls.state))
          => (Fatal(tls'.r) /\ tls'.state = tls.state)]_vars

\* C4 witness: a connection was dropped in CERTIFICATE_VERIFY on a message
\* that has the body of a CertificateVerify and another handshake type
C4_Witness ==
    /\ tls.state = "CERTIFICATE_VERIFY"
    /\ inmsg.type = "ClientKeyExchange" /\ inmsg.pos > 0
    /\ tls.hstype = "ClientKeyExchange"
    /\ tls.r = "TTLS_ERR_BAD_HS_CERTIFICATE_VERIFY"
    /\ closed

TLS_RSA_WITH_AES_128_CBC_SHA == 47

PeerSuites ==
    {TLS_RSA_WITH_AES_128_GCM_SHA256, TLS_DHE_RSA_WITH_AES_128_GCM_SHA256,
     TLS_ECDHE_RSA_WITH_AES_128_GCM_SHA256,
     TLS_ECDHE_ECDSA_WITH_AES_128_GCM_SHA256, TLS_RSA_WITH_AES_128_CBC_SHA}

ServerLists ==
    {<<TLS_RSA_WITH_AES_128_GCM_SHA256,
       TLS_DHE_RSA_WITH_AES_128_GCM_SHA256>>,
     <<TLS_DHE_RSA_WITH_AES_128_GCM_SHA256,
       TLS_RSA_WITH_AES_128_GCM_SHA256>>,
     <<TLS_ECDHE_ECDSA_WITH_AES_128_GCM_SHA256,
       TLS_ECDHE_RSA_WITH_AES_128_GCM_SHA256,
       TLS_RSA_WITH_AES_128_GCM_SHA256>>}

KeyCert(pk, grp, usage) ==
    [pk |-> pk, usage_ok |-> usage, grp_id |-> grp, len |-> 2]

KeyCertLists ==
    {<<KeyCert(TTLS_PK_RSA, TTLS_ECP_DP_NONE, TRUE)>>,
     <<KeyCert(TTLS_PK_RSA, TTLS_ECP_DP_NONE, FALSE),
       KeyCert(TTLS_PK_ECDSA, 1, TRUE)>>,
     <<KeyCert(TTLS_PK_ECDSA, 2, TRUE),
       KeyCert(TTLS_PK_RSA, TTLS_ECP_DP_NONE, TRUE)>>}

\* the context ttls_parse_client_hello() has before it selects the suite
ParsedHello(css, crv, hr, he) ==
    [InitTls EXCEPT
        !.sub = "CH_HS_EX", !.major = TTLS_MAJOR_VERSION_3,
        !.minor = TTLS_MINOR_VERSION_3, !.hstype = "ClientHello",
        !.peer_conf = TRUE,
        !.css = MemCpy(@, 0, css), !.cs_total_len = 2 * Len(css),
        !.cs_cur_len = 2 * Len(css),
        !.curves = MemCpy(@, 0, crv), !.curves_ext = crv # <<>>,
        !.hash_algs = [k \in {TTLS_PK_RSA, TTLS_PK_ECDSA} |->
                          IF k = TTLS_PK_RSA THEN hr ELSE he]]

InitCS ==
    /\ \E l \in ServerLists, kc \in KeyCertLists :
          conf = [Cfg(TTLS_MINOR_VERSION_3, FALSE, FALSE, "TTLS_VERIFY_NONE",
                      l) EXCEPT !.key_cert = kc]
    /\ \E css \in SeqsUpTo(PeerSuites, CSS_MAX) \ {<<>>},
          crv \in {<<>>, <<1>>, <<2, 1>>}, hr \in {TTLS_MD_NONE, 4},
          he \in {TTLS_MD_NONE, 4} :
          tls = ParsedHello(css, crv, hr, he)
    /\ hello = <<>>
    /\ inmsg = [type |-> "none", body |-> <<>>, pos |-> 0, seq |-> 0,
                one_byte |-> TRUE]
    /\ inp = NoInput
    /\ closed = FALSE
    /\ mpi = NoMpi

ChooseSuite ==
    /\ tls.r = T_OK /\ tls.ci = NoSuite
    /\ tls' = ttls_choose_ciphersuite(tls)
    /\ UNCHANGED <<conf, hello, inmsg, inp, closed, mpi>>

NextCS == ChooseSuite

SpecCS == InitCS /\ [][NextCS]_vars

\* the suites the peer offered, as far as they were stored
StoredPeerSuites == {tls.css[k] : k \in 1..(tls.cs_total_len \div 2)}

\* the signature kind of a suite of the table
SigKind(kx) == IF kx = "ECDHE_ECDSA" THEN TTLS_PK_ECDSA ELSE TTLS_PK_RSA

\* a suite passes every check: the version bracket, a negotiated curve if
\* it uses EC, a hash for its signature kind, a key and certificate that fit
Usable(id) ==
    LET ci == ttls_ciphersuite_from_id(id)
        kx == ci.key_exchange
        crv == {tls.curves[k] : k \in 1..Len(tls.curves)}
                   \ {TTLS_ECP_DP_NONE}
    IN  /\ ci.min_minor_ver <= tls.minor /\ tls.minor <= ci.max_minor_ver
        /\ kx \in {"ECDHE_RSA", "ECDHE_ECDSA"} => crv # {}
        /\ tls.hash_algs[SigKind(kx)] # TTLS_MD_NONE
        /\ \E k \in 1..Len(conf.key_cert) :
              /\ conf.key_cert[k].pk = SigKind(kx)
              /\ conf.key_cert[k].usage_ok
              /\ SigKind(kx) = TTLS_PK_ECDSA
                    => conf.key_cert[k].grp_id \in crv

\* the places of the server's list whose suite the peer offered and which
\* is usable
Candidates ==
    {i \in 1..Len(conf.ciphersuite_list) :
        /\ conf.ciphersuite_list[i] \in StoredPeerSuites
        /\ Usable(conf.ciphersuite_list[i])}

SelectionDone == tls.r # T_OK \/ tls.ci # NoSuite

\* C6: ttls_choose_ciphersuite() selects the first suite of the server's
\* list, in the server's order, that is among the stored peer suites and
\* passes every usability check, whatever the order the peer listed its
\* suites in; when there is no such suite it selects none, sends a fatal
\* handshake_failure alert and fails.
C6_ServerPreference ==
    SelectionDone =>
        IF Candidates = {}
        THEN /\ tls.r = EINVAL /\ tls.ci = NoSuite
             /\ tls.alerts = <<"handshake_failure">>
        ELSE LET first == CHOOSE i \in Candidates :
                              \A j \in Candidates : i <= j
             IN  /\ tls.r = T_OK /\ tls.alerts = <<>>
                 /\ tls.sess_ciphersuite = conf.ciphersuite_list[first]
                 /\ tls.ci = ttls_ciphersuite_from_id(tls.sess_ciphersuite)

\* C6 witness: the peer listed two usable suites in the order opposite to
\* the server's, and the server's first one was selected
C6_Witness ==
    /\ SelectionDone /\ hello = <<>>
    /\ conf.ciphersuite_list = <<TLS_RSA_WITH_AES_128_GCM_SHA256,
                                 TLS_DHE_RSA_WITH_AES_128_GCM_SHA256>>
    /\ tls.css[1] = TLS_DHE_RSA_WITH_AES_128_GCM_SHA256
    /\ tls.css[2] = TLS_RSA_WITH_AES_128_GCM_SHA256
    /\ tls.cs_total_len = 4
    /\ Cardinality(Candidates) = 2
    /\ tls.sess_ciphersuite = TLS_RSA_WITH_AES_128_GCM_SHA256

(***************************************************************************)
(* The cipher-suite list and the session id of the ClientHello on the      *)
(* wire, read off the bytes of the body.                                   *)
(***************************************************************************)
\* the offset of the session-id length: version and random come first
HelloSidOff == 2 + HS_RND_SZ

HelloSid(h) == SubSeq(h, HelloSidOff + 2, HelloSidOff + 1 + B(h, HelloSidOff))

\* the offset of the length of the suite list
HelloCsOff(h) == HelloSidOff + 1 + B(h, HelloSidOff)

\* the declared length of the list, in bytes
HelloCsLen(h) == B(h, HelloCsOff(h)) * 256 + B(h, HelloCsOff(h) + 1)

HelloSuites(h) ==
    [i \in 1..(HelloCsLen(h) \div 2) |->
        B(h, HelloCsOff(h) + 2 * i) * 256 + B(h, HelloCsOff(h) + 2 * i + 1)]

\* the offset of the number of compression methods
HelloCompOff(h) == HelloCsOff(h) + 2 + HelloCsLen(h)

\* every byte of the suite list of the connection's ClientHello went
\* through the parser
ListDelivered == InFirstHello /\ inmsg.pos >= HelloCompOff(hello)

\* C7: for every ClientHello whose suite list holds FALLBACK_SCSV at any
\* place of the declared list, when the client's minor version is below
\* conf.max_minor_ver the handshake fails with a fatal
\* inappropriate_fallback alert and no suite is selected.
C7_FallbackRejected ==
    (/\ ListDelivered
     /\ \E i \in 1..Len(HelloSuites(hello)) :
           HelloSuites(hello)[i] = TTLS_FALLBACK_SCSV_VALUE
     /\ B(hello, 1) < conf.max_minor_ver)
        => /\ tls.r = TTLS_ERR_BAD_HS_CLIENT_HELLO
           /\ tls.alerts = <<"inappropriate_fallback">>
           /\ tls.ci = NoSuite

\* the number of suites the parser keeps of the list of h
StoredCount(h) == Min(HelloCsLen(h) \div 2, CSS_MAX)

\* C8: for every declared length n of the suite list the parser stores the
\* first min(n/2, CSS_MAX) suites in the peer's order and nothing behind
\* the css array, consumes all n bytes of the list, so that the number of
\* compression methods is read where it is, and the selection afterwards
\* scans the stored entries and nothing else.
C8_SuiteListBounded ==
    /\ InFirstHello => Len(tls.css) = CSS_MAX
    /\ (ListDelivered /\ tls.alerts # <<"inappropriate_fallback">>) =>
          /\ \A k \in 1..CSS_MAX :
                tls.css[k] = IF k <= StoredCount(hello)
                             THEN HelloSuites(hello)[k] ELSE 0
          /\ tls.cs_total_len = 2 * StoredCount(hello)
          /\ tls.sub = "CH_HS_COMPN" => inmsg.pos = HelloCompOff(hello)
          /\ tls.sub = "CH_HS_COMP" =>
                tls.compr_n = B(hello, HelloCompOff(hello))
                              - (inmsg.pos - HelloCompOff(hello) - 1)
          /\ tls.ci # NoSuite =>
                \E k \in 1..StoredCount(hello) :
                    tls.sess_ciphersuite = HelloSuites(hello)[k]

\* C8 witness: a ClientHello that lists more suites than css holds came one
\* byte per call and was answered
C8_Witness ==
    /\ ListDelivered /\ inmsg.pos = Len(hello) /\ inmsg.one_byte
    /\ HelloCsLen(hello) \div 2 > CSS_MAX
    /\ tls.r = T_OK /\ tls.ci # NoSuite
    /\ tls.cs_total_len = 2 * CSS_MAX

\* C10: the session id in ServerHello is the session id of the ClientHello
\* when the session is resumed, empty when the session is not resumed and a
\* ticket will be issued, 32 bytes of the random generator otherwise.
C10_ServerHelloSessionId ==
    InFirstHello =>
        \A k \in 1..Len(tls.sgt) :
            tls.sgt[k].type = "ServerHello" =>
                tls.sgt[k].sid =
                    IF tls.resume THEN HelloSid(hello)
                    ELSE IF tls.new_session_ticket THEN <<>>
                    ELSE Rep(SESS_ID_SZ, inp.rnd)

(***************************************************************************)
(* The RSA branch of ttls_parse_client_key_exchange() on its own: every    *)
(* outcome of ttls_pk_decrypt() of the bounds below.  When the decryption  *)
(* fails, peer_pmslen and peer_pms hold whatever the stack held.           *)
(***************************************************************************)
\* the return values of ttls_pk_decrypt(): success, an RSA error, the
\* lowest int, a positive value
DecryptResults == {0, 0 - 16640, 0 - 2147483647 - 1, 1}

DecryptLens == {0, PMS_SZ - 1, PMS_SZ, PMS_SZ + 1, 304}

DecryptOutcomes ==
    {Decrypted(r, n, PmsBytes(a, b, x)) :
        r \in DecryptResults, n \in DecryptLens,
        a \in {TTLS_MAX_MAJOR_VERSION, 2, 0},
        b \in {TTLS_MINOR_VERSION_3, TTLS_MINOR_VERSION_4, 255},
        x \in {7, 0}}

\* a successful decryption gives no more than the buffer takes
PossibleOutcome(d) == d.r = 0 => d.peer_pmslen <= PMS_SZ

\* a context in CLIENT_KEY_EXCHANGE with a plain RSA suite selected
InKeyExchange ==
    [InitTls EXCEPT
        !.state = "CLIENT_KEY_EXCHANGE", !.sub = "CH_HS_EX",
        !.major = TTLS_MAJOR_VERSION_3, !.minor = TTLS_MINOR_VERSION_3,
        !.hstype = "ClientKeyExchange", !.peer_conf = TRUE,
        !.ci = ttls_ciphersuite_from_id(TLS_RSA_WITH_AES_128_GCM_SHA256),
        !.sess_ciphersuite = TLS_RSA_WITH_AES_128_GCM_SHA256,
        !.key_cert = 1]

InitPMS ==
    /\ conf \in Confs
    /\ tls = InKeyExchange
    /\ hello = <<>>
    /\ \E b \in {<<0, 2, 9, 9>>, <<0, 2, 9>>, <<0, 1, 5>>, <<1, 2, 9, 9>>} :
          inmsg = [type |-> "ClientKeyExchange", body |-> b, pos |-> 0,
                   seq |-> 1, one_byte |-> FALSE]
    /\ \E d \in {o \in DecryptOutcomes : PossibleOutcome(o)},
          f \in {"none", "ttls_derive_keys"} :
          inp = [NoInput EXCEPT !.dec = d, !.fail = f]
    /\ closed = FALSE
    /\ mpi = NoMpi

ParsePMS ==
    /\ inmsg.pos = 0
    /\ tls' = cke_body(tls, inmsg.body, inp)
    /\ inmsg' = [inmsg EXCEPT !.pos = Len(inmsg.body)]
    /\ UNCHANGED <<conf, hello, inp, closed, mpi>>

NextPMS == ParsePMS

SpecPMS == InitPMS /\ [][NextPMS]_vars

\* the public length prefix of the message matches the length of the key
PrefixMatches ==
    /\ Len(inmsg.body) = 2 + conf.key_cert[1].len
    /\ inmsg.body[1] * 256 + inmsg.body[2] = conf.key_cert[1].len

\* the decryption succeeded, gave 48 bytes, and the version bytes match
DecryptedWell ==
    /\ inp.dec.r = 0 /\ inp.dec.peer_pmslen = PMS_SZ
    /\ inp.dec.peer_pms[1] = TTLS_MAX_MAJOR_VERSION
    /\ inp.dec.peer_pms[2] = conf.max_minor_ver

\* C9: once the public length prefix matches the key length,
\* ttls_parse_encrypted_pms() leaves pmslen = 48 whether or not the RSA
\* decryption succeeded; the premaster is the decrypted bytes iff the
\* decryption succeeded, gave 48 bytes and the two version bytes match, and
\* the 48 random bytes otherwise; and what the processing of the
\* ClientKeyExchange returns does not depend on the decryption: it is the
\* result of the key derivation.
C9_DecryptFailureMasked ==
    (inmsg.type = "ClientKeyExchange" /\ hello = <<>> /\ inmsg.pos > 0
     /\ PrefixMatches) =>
        /\ tls.pmslen = PMS_SZ
        /\ tls.premaster = IF DecryptedWell THEN inp.dec.peer_pms
                           ELSE inp.dec.fake_pms
        /\ tls.r = IF inp.fail = "ttls_derive_keys"
                   THEN TTLS_ERR_INTERNAL_ERROR ELSE T_OK

\* C9 witness: the decryption failed, the stack held what looks like a good
\* premaster, and the random bytes were taken
C9_Witness ==
    /\ inmsg.type = "ClientKeyExchange" /\ hello = <<>> /\ inmsg.pos > 0
    /\ PrefixMatches
    /\ inp.dec.r # 0 /\ inp.dec.peer_pmslen = PMS_SZ
    /\ inp.dec.peer_pms[1] = TTLS_MAX_MAJOR_VERSION
    /\ inp.dec.peer_pms[2] = conf.max_minor_ver
    /\ tls.premaster = inp.dec.fake_pms /\ tls.r = T_OK

(***************************************************************************)
(* The first flight over ClientHello bodies that carry the extensions the  *)
(* server acts on: server name, ALPN, point formats, supported groups,     *)
(* renegotiation_info, extended master secret and session ticket.          *)
(***************************************************************************)
\* the protocol names of the ALPN lists: "h2", "h1" and "s1"
ProtoH2 == <<104, 50>>
ProtoH1 == <<104, 49>>
ProtoS1 == <<115, 49>>

\* the bodies of the extensions, as RFC 6066, 7301, 4492 lay them out
SniBody(name_type, name) ==
    U16(Len(name) + 3) \o <<name_type>> \o U16(Len(name)) \o name

AlpnList(protos) ==
    Flat([i \in 1..Len(protos) |-> <<Len(protos[i])>> \o protos[i]])

AlpnBody(protos) == U16(Len(AlpnList(protos))) \o AlpnList(protos)

PfBody(formats) == <<Len(formats)>> \o formats

CurvesBody(ids) ==
    U16(2 * Len(ids)) \o Flat([i \in 1..Len(ids) |-> U16(ids[i])])

SniExt(name) == Ext(TTLS_TLS_EXT_SERVERNAME, SniBody(0, name))
AlpnExt(protos) == Ext(TTLS_TLS_EXT_ALPN, AlpnBody(protos))
PfExt(formats) == Ext(TTLS_TLS_EXT_SUPPORTED_POINT_FORMATS, PfBody(formats))
CurvesExt(ids) == Ext(TTLS_TLS_EXT_SUPPORTED_ELLIPTIC_CURVES, CurvesBody(ids))
RenegExt == Ext(TTLS_TLS_EXT_RENEGOTIATION_INFO, <<0>>)

\* a ClientHello with no session id and the null compression alone
XHello(suites, exts) ==
    ClientHello(<<>>, suites, <<TTLS_COMPRESS_NULL>>, TRUE, exts)

\* the suite lists with EMPTY_RENEGOTIATION_INFO_SCSV at every place, the
\* last one behind the suites the server stores
RenegSuites ==
    {<<TLS_RSA_WITH_AES_128_GCM_SHA256>>,
     <<TTLS_EMPTY_RENEGOTIATION_INFO, TLS_RSA_WITH_AES_128_GCM_SHA256>>,
     <<TLS_RSA_WITH_AES_128_GCM_SHA256, TTLS_EMPTY_RENEGOTIATION_INFO>>,
     <<TLS_RSA_WITH_AES_128_GCM_SHA256, TLS_DHE_RSA_WITH_AES_128_GCM_SHA256,
       TTLS_EMPTY_RENEGOTIATION_INFO>>}

\* the extensions ServerHello answers, one at a time
AnsweredExts ==
    {RenegExt, ExtByKind("ems"), ExtByKind("noticket"), ExtByKind("ticket"),
     ExtByKind("badticket"), PfExt(<<TTLS_ECP_PF_UNCOMPRESSED>>),
     AlpnExt(<<ProtoH2>>), SniExt(<<97>>)}

AnsweredHellos ==
    {XHello(ss, <<ExtByKind("sig")>>) : ss \in RenegSuites}
    \cup {XHello(<<TLS_RSA_WITH_AES_128_GCM_SHA256>>, <<ExtByKind("sig"), x>>) :
             x \in AnsweredExts}
    \cup {XHello(<<TLS_RSA_WITH_AES_128_GCM_SHA256>>,
                 <<SniExt(<<97>>), ExtByKind("sig"), RenegExt,
                   ExtByKind("ems"), ExtByKind("noticket"),
                   PfExt(<<TTLS_ECP_PF_UNCOMPRESSED>>),
                   AlpnExt(<<ProtoH2>>)>>)}

\* a ClientHello body given field by field, the length fields as they are
\* written and not as they should be
RawHello(sid_len, sid, cs_len, suites, comp_n, comps, tail) ==
    <<TTLS_MAJOR_VERSION_3, TTLS_MINOR_VERSION_3>>
    \o [i \in 1..HS_RND_SZ |-> 100 + i]
    \o <<sid_len>> \o sid \o U16(cs_len) \o suites \o <<comp_n>> \o comps
    \o tail

OneSuite == U16(TLS_RSA_WITH_AES_128_GCM_SHA256)

\* an extensions block: the declared total and the bytes
ExtBlock(total, bytes) == U16(total) \o bytes

SigBlock == ExtBlock(8, ExtByKind("sig"))

\* ClientHello bodies with one inconsistent length each
MalformedHellos ==
    {\* session id: longer than the field may be, longer than the message
     RawHello(SESS_ID_SZ + 1, Rep(SESS_ID_SZ + 1, 7), 2, OneSuite,
              1, <<TTLS_COMPRESS_NULL>>, SigBlock),
     RawHello(20, <<>>, 2, OneSuite, 1, <<TTLS_COMPRESS_NULL>>, SigBlock),
     \* suite list: empty, odd, longer than the message
     RawHello(0, <<>>, 0, <<>>, 1, <<TTLS_COMPRESS_NULL>>, SigBlock),
     RawHello(0, <<>>, 3, OneSuite \o <<0>>, 1, <<TTLS_COMPRESS_NULL>>,
              SigBlock),
     RawHello(0, <<>>, 40, OneSuite, 1, <<TTLS_COMPRESS_NULL>>, SigBlock),
     \* compression methods: none, too many, more than the message has,
     \* no null method
     RawHello(0, <<>>, 2, OneSuite, 0, <<>>, SigBlock),
     RawHello(0, <<>>, 2, OneSuite, COMPR_MAX + 1,
              Rep(COMPR_MAX + 1, TTLS_COMPRESS_NULL), SigBlock),
     RawHello(0, <<>>, 2, OneSuite, 15, <<TTLS_COMPRESS_NULL>>, SigBlock),
     RawHello(0, <<>>, 2, OneSuite, 1, <<1>>, SigBlock),
     RawHello(0, <<>>, 2, OneSuite, 2, <<1, 2>>, SigBlock),
     \* extensions total: more and less than what is left, 1..3
     RawHello(0, <<>>, 2, OneSuite, 1, <<TTLS_COMPRESS_NULL>>,
              ExtBlock(9, ExtByKind("sig"))),
     RawHello(0, <<>>, 2, OneSuite, 1, <<TTLS_COMPRESS_NULL>>,
              ExtBlock(4, ExtByKind("sig"))),
     RawHello(0, <<>>, 2, OneSuite, 1, <<TTLS_COMPRESS_NULL>>,
              ExtBlock(2, <<0, 0>>)),
     \* an extension larger than the rest of the block, than the scratch
     RawHello(0, <<>>, 2, OneSuite, 1, <<TTLS_COMPRESS_NULL>>,
              ExtBlock(8, <<0, 21, 0, 9, 0, 0, 0, 0>>)),
     RawHello(0, <<>>, 2, OneSuite, 1, <<TTLS_COMPRESS_NULL>>,
              ExtBlock(12, ExtByKind("ems") \o <<0, 21, 0, 5, 0, 0, 0, 0>>)),
     RawHello(0, <<>>, 2, OneSuite, 1, <<TTLS_COMPRESS_NULL>>,
              ExtBlock(HS_RBUF_SZ + 5, Ext(21, Rep(HS_RBUF_SZ + 1, 0)))),
     \* one to three bytes left behind an extension
     RawHello(0, <<>>, 2, OneSuite, 1, <<TTLS_COMPRESS_NULL>>,
              ExtBlock(10, ExtByKind("sig") \o <<0, 0>>)),
     RawHello(0, <<>>, 2, OneSuite, 1, <<TTLS_COMPRESS_NULL>>,
              ExtBlock(7, ExtByKind("ems") \o <<0, 0, 0>>))}

\* ClientHello bodies that end behind the compression methods
NoExtHellos ==
    {ClientHello(<<>>, ss, cs, FALSE, <<>>) :
        ss \in {<<TLS_RSA_WITH_AES_128_GCM_SHA256>>,
                <<TLS_RSA_WITH_AES_128_GCM_SHA256,
                  TLS_DHE_RSA_WITH_AES_128_GCM_SHA256>>},
        cs \in {<<TTLS_COMPRESS_NULL>>, <<1, TTLS_COMPRESS_NULL>>}}

\* a server_name extension with the entries es, each <<name type, name>>
SniListExt(es) ==
    LET list == Flat([i \in 1..Len(es) |->
                         <<es[i][1]>> \o U16(Len(es[i][2])) \o es[i][2]])
    IN  Ext(TTLS_TLS_EXT_SERVERNAME, U16(Len(list)) \o list)

\* server_name lists: a host the server has and one it lacks, alone, after
\* an entry of another name type and after each other
SniLists ==
    {<< <<0, <<98>> >> >>,
     << <<1, <<97>> >> >>,
     << <<1, <<98>> >>, <<0, <<97>> >> >>,
     << <<1, <<97>> >>, <<0, <<98>> >> >>,
     << <<0, <<97>> >>, <<0, <<98>> >> >>,
     << <<0, <<98>> >>, <<0, <<97>> >> >>}

SniHellos ==
    {XHello(<<TLS_RSA_WITH_AES_128_GCM_SHA256>>,
            <<ExtByKind("sig"), SniListExt(es)>>) : es \in SniLists}
    \cup {XHello(<<TLS_RSA_WITH_AES_128_GCM_SHA256>>,
                 <<SniListExt(<< <<0, <<98>> >> >>), ExtByKind("sig")>>)}

\* the ALPN offers: the server's protocols in its order and against it,
\* alone, with and without a protocol the server lacks
AlpnOffers ==
    {<<ProtoH1>>, <<ProtoH1, ProtoH2>>, <<ProtoH2, ProtoH1>>, <<ProtoS1>>,
     <<ProtoS1, ProtoH1>>, <<ProtoS1, ProtoH1, ProtoH2>>}

AlpnHellos ==
    {XHello(<<TLS_RSA_WITH_AES_128_GCM_SHA256>>,
            <<ExtByKind("sig"), AlpnExt(ps)>>) : ps \in AlpnOffers}

\* hellos whose session_ticket extension, empty, good or bad, is followed
\* by another extension
TicketHellos ==
    {ClientHello(sid, <<TLS_RSA_WITH_AES_128_GCM_SHA256>>,
                 <<TTLS_COMPRESS_NULL>>, TRUE,
                 <<ExtByKind(k), ExtByKind("sig")>>) :
        sid \in {<<>>, <<7, 8>>}, k \in {"noticket", "ticket", "badticket"}}

\* point format lists: uncompressed (0), compressed (1) and a format the
\* server does not know (2), alone and in pairs
PfLists ==
    {<<TTLS_ECP_PF_UNCOMPRESSED>>, <<TTLS_ECP_PF_COMPRESSED>>, <<2>>,
     <<TTLS_ECP_PF_UNCOMPRESSED, TTLS_ECP_PF_COMPRESSED>>,
     <<TTLS_ECP_PF_COMPRESSED, TTLS_ECP_PF_UNCOMPRESSED>>,
     <<2, TTLS_ECP_PF_UNCOMPRESSED>>, <<2, TTLS_ECP_PF_COMPRESSED>>}

PfHellos ==
    {XHello(<<TLS_RSA_WITH_AES_128_GCM_SHA256>>,
            <<ExtByKind("sig"), PfExt(fs)>>) : fs \in PfLists}

\* supported_groups: lists of curves the server knows (23..28) and one it
\* does not (99), a list behind an extension that leaves the bytes of the
\* curve 24 in the scratch buffer, and the extension sent twice
CurveExtLists ==
    {<<CurvesExt(<<>>)>>, <<CurvesExt(<<23>>)>>, <<CurvesExt(<<99>>)>>,
     <<CurvesExt(<<23, 24>>)>>, <<CurvesExt(<<99, 25, 23>>)>>,
     <<Ext(21, <<0, 0, 0, 0, 0, 24>>), CurvesExt(<<23>>)>>,
     <<CurvesExt(<<23>>), CurvesExt(<<24>>)>>,
     <<CurvesExt(<<23>>), ExtByKind("ems"), CurvesExt(<<23>>)>>}

CurveHellos ==
    {XHello(<<TLS_RSA_WITH_AES_128_GCM_SHA256>>, <<ExtByKind("sig")>> \o es) :
        es \in CurveExtLists}

ExtHellos ==
    AnsweredHellos \cup MalformedHellos \cup NoExtHellos \cup SniHellos
    \cup AlpnHellos \cup TicketHellos \cup PfHellos \cup CurveHellos

\* the configurations: with and without ticket callbacks, with and without
\* an SNI callback, which has or lacks a default vhost
XCfg(tick, sni, dflt) ==
    [Cfg(TTLS_MINOR_VERSION_3, tick, TRUE, "TTLS_VERIFY_NONE",
         <<TLS_RSA_WITH_AES_128_GCM_SHA256,
           TLS_DHE_RSA_WITH_AES_128_GCM_SHA256>>)
     EXCEPT !.f_sni = sni, !.default_vhost = dflt,
            !.alpn_list = <<ProtoH2, ProtoH1>>]

ExtConfs == {XCfg(TRUE, TRUE, TRUE), XCfg(FALSE, TRUE, FALSE),
             XCfg(TRUE, FALSE, FALSE)}

InitExt ==
    /\ conf \in ExtConfs
    /\ hello \in ExtHellos
    /\ tls = InitTls
    /\ inmsg = [type |-> "none", body |-> <<>>, pos |-> 0, seq |-> 0,
                one_byte |-> TRUE]
    /\ inp = NoInput
    /\ closed = FALSE
    /\ mpi = NoMpi

\* the record layer hands the ClientHello over whole, or a byte at a time
RecvExt ==
    /\ ~closed
    /\ inmsg.pos < Len(inmsg.body)
    /\ \E k \in {1, Len(inmsg.body) - inmsg.pos} :
          /\ tls' = RecvResult(tls, inmsg, k, NoInput)
          /\ inmsg' = [inmsg EXCEPT !.pos = @ + k, !.one_byte = @ /\ k = 1]
          /\ closed' = conn_drop(tls'.r)
    /\ UNCHANGED <<conf, hello, inp, mpi>>

NextExt == SendFirst \/ RecvExt

SpecExt == InitExt /\ [][NextExt]_vars

\* the extensions of a ClientHello body, read off its bytes
HelloExtOff(h) == HelloCompOff(h) + 1 + B(h, HelloCompOff(h))

RECURSIVE ExtsFrom(_, _)
ExtsFrom(h, p) ==
    IF p + 4 > Len(h) THEN <<>>
    ELSE LET n == B(h, p + 2) * 256 + B(h, p + 3)
         IN  <<[type |-> B(h, p) * 256 + B(h, p + 1),
                body |-> SubSeq(h, p + 5, p + 4 + n)]>>
             \o ExtsFrom(h, p + 4 + n)

HelloExts(h) ==
    IF HelloExtOff(h) + 2 > Len(h) THEN <<>>
    ELSE ExtsFrom(h, HelloExtOff(h) + 2)

HasExt(h, type) ==
    \E i \in 1..Len(HelloExts(h)) : HelloExts(h)[i].type = type

\* the ServerHello messages written for the connection
ServerHellos ==
    {tls.sgt[k] : k \in {j \in 1..Len(tls.sgt) :
                            tls.sgt[j].type = "ServerHello"}}

Carries(sh, name) == \E i \in 1..Len(sh.exts) : sh.exts[i] = name

\* C11: ServerHello carries renegotiation_info iff the ClientHello had
\* EMPTY_RENEGOTIATION_INFO_SCSV anywhere in its suite list or a valid
\* renegotiation_info extension, extended_master_secret iff the client sent
\* that extension, session_ticket iff a new ticket will be issued,
\* ec_point_formats iff the client sent a point-formats extension, ALPN iff
\* a protocol was chosen, no other extension, and the extensions-length
\* field iff at least one extension is written.
C11_ServerHelloExtensions ==
    InFirstHello =>
        \A sh \in ServerHellos :
            /\ Carries(sh, "renegotiation_info") <=>
                  \/ \E i \in 1..Len(HelloSuites(hello)) :
                        HelloSuites(hello)[i] = TTLS_EMPTY_RENEGOTIATION_INFO
                  \/ \E i \in 1..Len(HelloExts(hello)) :
                        /\ HelloExts(hello)[i].type
                               = TTLS_TLS_EXT_RENEGOTIATION_INFO
                        /\ HelloExts(hello)[i].body = <<0>>
            /\ Carries(sh, "extended_master_secret") <=>
                  HasExt(hello, TTLS_TLS_EXT_EXTENDED_MASTER_SECRET)
            /\ Carries(sh, "session_ticket") <=> tls.new_session_ticket
            /\ Carries(sh, "ec_point_formats") <=>
                  HasExt(hello, TTLS_TLS_EXT_SUPPORTED_POINT_FORMATS)
            /\ Carries(sh, "alpn") <=> tls.alpn_chosen # 0
            /\ \A i \in 1..Len(sh.exts) :
                  sh.exts[i] \in {"renegotiation_info",
                                  "extended_master_secret", "session_ticket",
                                  "ec_point_formats", "alpn"}
            /\ sh.ext_len_field <=> sh.exts # <<>>

(***************************************************************************)
(* The server's last flight.                                               *)
(***************************************************************************)
\* what was written and sent, in order, from entry `from` of the log on
TxEvents(log, from) ==
    SelectSeq(SubSeq(log, from + 1, Len(log)),
              LAMBDA ev : ev[1] \in {"tx", "send"})

\* the step runs ttls_handshake_finished() and none of the externals that
\* stop it before the send fails: the connection waits in
\* SERVER_CHANGE_CIPHER_SPEC, or the client's Finished is accepted in a
\* handshake that is not resumed
FinishedRuns ==
    /\ tls' # tls
    /\ inp'.fail \in {"none", "f_ticket_write", "__ttls_send_record"}
    /\ \/ tls.state = "SERVER_CHANGE_CIPHER_SPEC"
       \/ /\ tls.state = "CLIENT_FINISHED" /\ ~tls.resume
          /\ tls'.r # T_POSTPONE /\ tls'.state # "CLIENT_FINISHED"

\* a ServerHello that went to the record layer carried session_ticket
AdvertisedTicket(wire) ==
    \E w \in 1..Len(wire) :
        \E k \in 1..Len(wire[w].msgs) :
            /\ wire[w].msgs[k].type = "ServerHello"
            /\ \E i \in 1..Len(wire[w].msgs[k].exts) :
                  wire[w].msgs[k].exts[i] = "session_ticket"

C12_Step ==
    FinishedRuns =>
        LET nst == IF tls.new_session_ticket THEN <<"NewSessionTicket">>
                   ELSE <<>>
            flight == nst \o <<"Finished">>
            sent == tls'.wire[Len(tls'.wire)]
        IN  /\ TxEvents(tls'.log, Len(tls.log)) =
                  [k \in 1..Len(nst) |-> <<"tx", nst[k]>>]
                  \o << <<"tx", "ChangeCipherSpec">>, <<"tx", "Finished">>,
                        <<"send", IF inp'.fail = "__ttls_send_record"
                                  THEN "err" ELSE "ok">> >>
            /\ Len(tls'.wire) = Len(tls.wire) + 1
            /\ [k \in 1..Len(sent.msgs) |-> sent.msgs[k].type] = flight
            /\ tls'.ccs_written
            /\ ~tls'.new_session_ticket
            /\ tls.new_session_ticket <=> AdvertisedTicket(tls.wire)
            /\ tls'.state \in {"HANDSHAKE_WRAPUP", "HANDSHAKE_OVER",
                               "CLIENT_CHANGE_CIPHER_SPEC", "CLIENT_FINISHED"}

\* C12: starting in SERVER_CHANGE_CIPHER_SPEC, ttls_handshake_finished()
\* writes NewSessionTicket once and before ChangeCipherSpec iff
\* hs.new_session_ticket is set, that is iff ServerHello advertised the
\* session_ticket extension, then ChangeCipherSpec, then Finished, gives
\* them to the record layer in one send, and returns.
C12_FinishedFlight == [][C12_Step]_vars

\* C12 witness: a handshake is over whose last flight was NewSessionTicket,
\* ChangeCipherSpec, Finished and one successful send
C12_Witness ==
    /\ tls.state = "HANDSHAKE_OVER"
    /\ AdvertisedTicket(tls.wire)
    /\ LET evs == TxEvents(tls.log, 0)
       IN  /\ Len(evs) >= 4
           /\ SubSeq(evs, Len(evs) - 3, Len(evs)) =
                 << <<"tx", "NewSessionTicket">>, <<"tx", "ChangeCipherSpec">>,
                    <<"tx", "Finished">>, <<"send", "ok">> >>

(***************************************************************************)
(* The layout of the ClientHello.                                          *)
(***************************************************************************)
\* the body ends right behind the compression methods
NoExtBlock(h) == HelloExtOff(h) = Len(h)

\* the step that took the last byte of the ClientHello has returned
HelloDelivered == InFirstHello /\ inmsg.pos = Len(hello)

\* C13: a ClientHello whose body ends right after the compression methods,
\* with no extensions-length field, is accepted: parsing completes with ok
\* on the last compression byte and neither fails nor waits for more bytes.
C13_NoExtensionsAccepted ==
    (/\ HelloDelivered
     /\ hello \in NoExtHellos
     /\ NoExtBlock(hello)
     /\ conf.f_sni /\ conf.default_vhost)
        => tls.r = T_OK /\ tls.state # "CLIENT_HELLO"

\* the lengths of a ClientHello body that do not fit, field by field in the
\* order of the layout; a field is looked at only if the ones before it fit
SidBad(h) ==
    \/ B(h, HelloSidOff) > SESS_ID_SZ
    \/ B(h, HelloSidOff) > Len(h) - (HelloSidOff + 1)

CsBad(h) ==
    /\ HelloCsOff(h) + 2 <= Len(h)
    /\ \/ HelloCsLen(h) = 0
       \/ HelloCsLen(h) % 2 = 1
       \/ HelloCsLen(h) > Len(h) - (HelloCsOff(h) + 2)

CompBad(h) ==
    LET off == HelloCompOff(h)
    IN  /\ off + 1 <= Len(h)
        /\ \/ B(h, off) = 0
           \/ B(h, off) > COMPR_MAX
           \/ B(h, off) > Len(h) - (off + 1)
           \/ \A k \in 1..B(h, off) : B(h, off + k) # TTLS_COMPRESS_NULL

ExtTotalBad(h) ==
    LET off == HelloExtOff(h)
        total == B(h, off) * 256 + B(h, off + 1)
    IN  /\ off + 2 <= Len(h)
        /\ \/ total # Len(h) - (off + 2)
           \/ total \in 1..3

RECURSIVE ExtSizesBad(_, _, _)
\* the extensions from offset p on, of which rem bytes are left
ExtSizesBad(h, p, rem) ==
    IF rem = 0 THEN FALSE
    ELSE IF rem < 4 THEN TRUE
    ELSE LET n == B(h, p + 2) * 256 + B(h, p + 3)
         IN  \/ n + 4 > rem
             \/ n > HS_RBUF_SZ
             \/ ExtSizesBad(h, p + 4 + n, rem - (4 + n))

Inconsistent(h) ==
    IF SidBad(h) THEN TRUE
    ELSE IF CsBad(h) THEN TRUE
    ELSE IF HelloCsOff(h) + 2 > Len(h) THEN FALSE
    ELSE IF CompBad(h) THEN TRUE
    ELSE IF HelloCompOff(h) + 1 > Len(h) THEN FALSE
    ELSE IF ExtTotalBad(h) THEN TRUE
    ELSE IF HelloExtOff(h) + 2 > Len(h) THEN FALSE
    ELSE ExtSizesBad(h, HelloExtOff(h) + 2, Len(h) - (HelloExtOff(h) + 2))

\* C14: a ClientHello with inconsistent lengths (session id longer than 32
\* or than the message, suite list empty, odd or longer than the message,
\* no compression method, more than 16 or more than the message has,
\* extensions total unlike the bytes left or 1..3, an extension larger than
\* the extension bytes left or than the scratch buffer, 1..3 bytes left
\* behind an extension) or without the null compression method is rejected
\* with a fatal decode_error alert and never reaches suite selection; the
\* counter of the extension bytes left never goes below zero.
C14_BadLengthsRejected ==
    /\ tls.ext_rem_sz >= 0
    /\ (InFirstHello /\ Inconsistent(hello)) =>
          /\ tls.ci = NoSuite /\ tls.state = "CLIENT_HELLO"
          /\ tls.sess_ciphersuite = 0 /\ tls.sgt = <<>>
          /\ tls.r \in {T_OK, T_POSTPONE, TTLS_ERR_BAD_HS_CLIENT_HELLO}
          /\ inmsg.pos = Len(hello) => tls.r = TTLS_ERR_BAD_HS_CLIENT_HELLO
          /\ tls.r = TTLS_ERR_BAD_HS_CLIENT_HELLO =>
                tls.alerts = <<"decode_error">> /\ closed
          /\ tls.r # TTLS_ERR_BAD_HS_CLIENT_HELLO => tls.alerts = <<>>

\* C14 witness: a ClientHello whose last extension declares more bytes than
\* the extensions block has left came a byte at a time and was rejected
\* where the size was read, after an extension had been parsed
C14_Witness ==
    /\ InFirstHello /\ Inconsistent(hello) /\ inmsg.one_byte
    /\ tls.sub = "CH_HS_EXS" /\ tls.extended_ms
    /\ tls.ext_sz + 4 > tls.ext_rem_sz
    /\ tls.alerts = <<"decode_error">> /\ closed

\* C15: while the ClientHello is processed, an error found before the peer
\* is known to speak TLS (the first message is not a ClientHello) is
\* returned with no alert sent, and every fatal error returned after that
\* point, from a sub-state, an extension handler, the default vhost lookup
\* or the suite selection, comes after a fatal alert was sent to the peer.
C15_AlertPolicy ==
    (inmsg.seq = 1 /\ tls.state = "CLIENT_HELLO" /\ Fatal(tls.r)) =>
        IF inmsg.type # "ClientHello" THEN tls.alerts = <<>>
        ELSE tls.alerts # <<>>

(***************************************************************************)
(* Server name indication.                                                 *)
(***************************************************************************)
RECURSIVE SniEntries(_, _)
\* the entries of a server_name list b from offset p on
SniEntries(b, p) ==
    IF p + 3 > Len(b) THEN <<>>
    ELSE LET n == B(b, p + 1) * 256 + B(b, p + 2)
         IN  <<[type |-> B(b, p), name |-> SubSeq(b, p + 4, p + 3 + n)]>>
             \o SniEntries(b, p + 3 + n)

\* the host names the ClientHello asks for, in the order of its list
HostNames(h) ==
    LET sni == SelectSeq(HelloExts(h),
                         LAMBDA x : x.type = TTLS_TLS_EXT_SERVERNAME)
    IN  IF sni = <<>> THEN <<>>
        ELSE LET es == SniEntries(sni[1].body, 2)
             IN  [k \in 1..Len(SelectSeq(es, LAMBDA x : x.type = 0)) |->
                     SelectSeq(es, LAMBDA x : x.type = 0)[k].name]

\* f_sni() is given the first host name of the list
NameGiven(h) == conf.f_sni /\ HostNames(h) # <<>>

\* C16: when the server_name extension carries a host_name entry that
\* conf.f_sni rejects the handshake fails with a fatal unrecognized_name
\* alert; when parsing ends with no vhost bound f_sni(NULL, 0) is called and
\* the handshake fails if that fails; so the suite is selected only with a
\* vhost bound (peer_conf set).
C16_ServerName ==
    /\ tls.ci # NoSuite => tls.peer_conf
    /\ tls.state # "CLIENT_HELLO" => tls.peer_conf
    /\ (HelloDelivered /\ hello \in SniHellos \cup AnsweredHellos) =>
          IF NameGiven(hello) /\ HostNames(hello)[1] \notin conf.vhosts
          THEN /\ tls.r = TTLS_ERR_BAD_HS_CLIENT_HELLO
               /\ tls.alerts = <<"unrecognized_name">>
               /\ ~tls.peer_conf /\ tls.ci = NoSuite
          ELSE IF NameGiven(hello)
          THEN tls.peer_conf /\ tls.ci # NoSuite
          ELSE IF conf.f_sni /\ conf.default_vhost
          THEN tls.peer_conf /\ tls.ci # NoSuite
          ELSE /\ Fatal(tls.r) /\ ~tls.peer_conf
               /\ tls.ci = NoSuite /\ tls.state = "CLIENT_HELLO"

\* C16 witness: the host name a ClientHello asks for, behind an entry of
\* another name type, is one the server lacks, and the hello was refused
C16_Witness ==
    /\ HelloDelivered /\ hello \in SniHellos
    /\ NameGiven(hello) /\ HostNames(hello) = << <<98>> >>
    /\ HasExt(hello, TTLS_TLS_EXT_SERVERNAME)
    /\ B(hello, HelloExtOff(hello) + 16) = 1
    /\ tls.alerts = <<"unrecognized_name">> /\ closed

(***************************************************************************)
(* ALPN.                                                                   *)
(***************************************************************************)
RECURSIVE ProtocolNames(_, _)
\* the names of a ProtocolNameList b from offset p on
ProtocolNames(b, p) ==
    IF p + 1 > Len(b) THEN {}
    ELSE {SubSeq(b, p + 2, p + 1 + B(b, p))}
         \cup ProtocolNames(b, p + 1 + B(b, p))

\* the protocols the ClientHello offers
Offered(h) ==
    LET alpn == SelectSeq(HelloExts(h), LAMBDA x : x.type = TTLS_TLS_EXT_ALPN)
    IN  IF alpn = <<>> THEN {} ELSE ProtocolNames(alpn[1].body, 2)

\* the places of the server's list whose protocol the client offers
Common(h) == {i \in 1..Len(conf.alpn_list) : conf.alpn_list[i] \in Offered(h)}

\* C17: for a well-formed ALPN extension the protocol chosen is the first
\* entry of the server's alpn_list, in the server's order, that equals some
\* protocol the client offers, whatever the client's order; when none
\* matches the handshake fails with a fatal no_application_protocol alert
\* and alpn_chosen stays unset.
C17_AlpnServerOrder ==
    (HelloDelivered /\ hello \in AlpnHellos \cup AnsweredHellos
     /\ HasExt(hello, TTLS_TLS_EXT_ALPN)) =>
        IF Common(hello) # {}
        THEN /\ tls.alpn_chosen \in Common(hello)
             /\ \A i \in Common(hello) : tls.alpn_chosen <= i
             /\ \A k \in 1..Len(tls.alerts) :
                   tls.alerts[k] # "no_application_protocol"
             /\ \A sh \in ServerHellos : Carries(sh, "alpn")
        ELSE /\ tls.r = TTLS_ERR_BAD_HS_CLIENT_HELLO
             /\ tls.alerts = <<"no_application_protocol">>
             /\ tls.alpn_chosen = 0
             /\ tls.state = "CLIENT_HELLO" /\ closed

\* C17 witness: the client offers the server's second protocol ahead of the
\* server's first one, and ServerHello answers with the server's first
C17_Witness ==
    /\ HelloDelivered /\ hello \in AlpnHellos
    /\ Offered(hello) = {ProtoH1, ProtoH2, ProtoS1}
    /\ conf.alpn_list = <<ProtoH2, ProtoH1>>
    /\ tls.alpn_chosen = 1
    /\ \E sh \in ServerHellos : Carries(sh, "alpn")

(***************************************************************************)
(* Session tickets.                                                        *)
(***************************************************************************)
\* the ticket of the ClientHello's session_ticket extension
TicketOf(h) ==
    SelectSeq(HelloExts(h),
              LAMBDA x : x.type = TTLS_TLS_EXT_SESSION_TICKET)[1].body

\* the call that took the last byte of the session_ticket extension has
\* returned and the parser waits for the extension behind it
TicketParsed ==
    /\ InFirstHello /\ hello \in TicketHellos
    /\ tls.sub = "CH_HS_EXT" /\ tls.rlen = 0
    /\ tls.ext_type = TTLS_TLS_EXT_SESSION_TICKET

\* C18: with the ticket callbacks configured a session_ticket extension
\* never fails the handshake: when f_ticket_parse accepts the ticket the
\* session is restored from it and hs.resume is set; when the ticket is
\* empty or f_ticket_parse fails, hs.resume stays 0, the session is left as
\* it was and a new ticket is scheduled (new_session_ticket = 1).
C18_TicketNeverFails ==
    /\ (InFirstHello /\ hello \in TicketHellos /\ conf.f_ticket) =>
          /\ tls.alerts = <<>>
          /\ tls.r \in {T_OK, T_POSTPONE}
                \/ (inmsg.pos = Len(hello) /\ (tls.resume \/ ~tls.peer_conf))
          /\ (inmsg.pos = Len(hello) /\ conf.f_sni /\ conf.default_vhost) =>
                /\ tls.state # "CLIENT_HELLO"
                /\ ~tls.resume => tls.r = T_OK
    /\ (TicketParsed /\ conf.f_ticket) =>
          /\ tls.r = T_POSTPONE
          /\ IF TicketOf(hello) \in conf.tickets
             THEN /\ tls.resume /\ tls.sess_from_ticket
                  /\ ~tls.new_session_ticket
             ELSE /\ ~tls.resume /\ tls.new_session_ticket
                  /\ ~tls.sess_from_ticket /\ tls.sess_ciphersuite = 0
          /\ tls.sess_id_len = Len(HelloSid(hello))
          /\ tls.sess_id = Rep(SESS_ID_SZ, 0)

\* C18 witness: a ticket that f_ticket_parse refuses was parsed, a new
\* ticket is scheduled and the parser goes on with the next extension
C18_Witness ==
    /\ TicketParsed /\ conf.f_ticket
    /\ TicketOf(hello) # <<>> /\ TicketOf(hello) \notin conf.tickets
    /\ tls.new_session_ticket /\ ~tls.resume /\ tls.r = T_POSTPONE

(***************************************************************************)
(* Elliptic curve extensions.                                              *)
(***************************************************************************)
\* the point formats the ClientHello offers
FormatsOf(h) ==
    LET pf == SelectSeq(HelloExts(h),
                  LAMBDA x : x.type = TTLS_TLS_EXT_SUPPORTED_POINT_FORMATS)
    IN  {pf[1].body[k] : k \in 2..Len(pf[1].body)}

\* C19: after a supported_point_formats extension the ECDH point format is
\* uncompressed whenever uncompressed is among the formats offered, at any
\* place of the list, and is left at its default when uncompressed is not
\* offered.
C19_PointFormat ==
    (HelloDelivered /\ hello \in PfHellos) =>
        /\ tls.cli_exts
        /\ tls.point_format =
              IF TTLS_ECP_PF_UNCOMPRESSED \in FormatsOf(hello)
              THEN TTLS_ECP_PF_UNCOMPRESSED
              ELSE InitTls.point_format

\* the supported_groups extensions of the ClientHello
GroupExts(h) ==
    SelectSeq(HelloExts(h),
              LAMBDA x : x.type = TTLS_TLS_EXT_SUPPORTED_ELLIPTIC_CURVES)

\* the named curves the first of them declares
DeclaredCurves(h) ==
    LET b == GroupExts(h)[1].body
    IN  {B(b, 2 * k) * 256 + B(b, 2 * k + 1) :
            k \in 1..((B(b, 0) * 256 + B(b, 1)) \div 2)}

\* C20: after a supported_groups extension hs.curves holds at most
\* TTLS_ECP_DP_MAX - 1 entries, each the mapping of a named curve that lies
\* inside the list the extension declares (no byte behind the declared list
\* is read as a curve id); a second supported_groups extension in the same
\* ClientHello is a fatal decode_error.
C20_CurvesBounded ==
    (HelloDelivered /\ hello \in CurveHellos) =>
        /\ Len(tls.curves) = TTLS_ECP_DP_MAX
        /\ Cardinality({k \in 1..Len(tls.curves) :
                           tls.curves[k] # TTLS_ECP_DP_NONE})
              <= TTLS_ECP_DP_MAX - 1
        /\ \A k \in 1..Len(tls.curves) :
              tls.curves[k] # TTLS_ECP_DP_NONE =>
                 \E id \in DeclaredCurves(hello) :
                    tls.curves[k] = ttls_ecp_curve_info_from_tls_id(id)
        /\ Len(GroupExts(hello)) > 1 =>
              /\ tls.r = TTLS_ERR_BAD_HS_CLIENT_HELLO
              /\ tls.alerts = <<"decode_error">>

(***************************************************************************)
(* The server's key exchange message.                                      *)
(***************************************************************************)
\* the curve lists of the peer: both preset curves in either order, one of
\* them, a curve the server knows but does not prefer (secp521r1) alone and
\* before a preset one, and no supported_groups extension
KxCurveExts ==
    {<<>>, <<CurvesExt(<<23>>)>>, <<CurvesExt(<<24>>)>>,
     <<CurvesExt(<<23, 24>>)>>, <<CurvesExt(<<24, 23>>)>>,
     <<CurvesExt(<<25>>)>>, <<CurvesExt(<<25, 24>>)>>}

KxSuites ==
    {<<TLS_ECDHE_RSA_WITH_AES_128_GCM_SHA256>>,
     <<TLS_RSA_WITH_AES_128_GCM_SHA256,
       TLS_ECDHE_RSA_WITH_AES_128_GCM_SHA256>>,
     <<TLS_DHE_RSA_WITH_AES_128_GCM_SHA256>>,
     <<TLS_RSA_WITH_AES_128_GCM_SHA256>>}

KxHellos ==
    {XHello(ss, <<ExtByKind("sig")>> \o es) :
        ss \in KxSuites, es \in KxCurveExts}

\* a server that prefers ECDHE, with and without DH parameters
KxCfg(dhm) ==
    [Cfg(TTLS_MINOR_VERSION_3, FALSE, TRUE, "TTLS_VERIFY_NONE",
         <<TLS_ECDHE_RSA_WITH_AES_128_GCM_SHA256,
           TLS_DHE_RSA_WITH_AES_128_GCM_SHA256,
           TLS_RSA_WITH_AES_128_GCM_SHA256>>)
     EXCEPT !.dhm_set = dhm]

InitKx ==
    /\ conf \in {KxCfg(TRUE), KxCfg(FALSE)}
    /\ hello \in KxHellos
    /\ tls = InitTls
    /\ inmsg = [type |-> "none", body |-> <<>>, pos |-> 0, seq |-> 0,
                one_byte |-> TRUE]
    /\ inp = NoInput
    /\ closed = FALSE
    /\ mpi = NoMpi

\* the record layer hands the ClientHello over whole, or a byte at a time;
\* the externals of the step that answers it behave in every way
RecvKx ==
    /\ ~closed
    /\ inmsg.pos < Len(inmsg.body)
    /\ \E k \in {1, Len(inmsg.body) - inmsg.pos} :
         \E e \in (IF inmsg.pos + k = Len(inmsg.body)
                   THEN Inputs("SERVER_HELLO") ELSE {NoInput}) :
            /\ tls' = RecvResult(tls, inmsg, k, e)
            /\ inmsg' = [inmsg EXCEPT !.pos = @ + k,
                                      !.one_byte = @ /\ k = 1]
            /\ inp' = e
            /\ closed' = conn_drop(tls'.r)
    /\ UNCHANGED <<conf, hello, mpi>>

NextKx == SendFirst \/ RecvKx

SpecKx == InitKx /\ [][NextKx]_vars

\* the suites with an ephemeral key exchange
Ephemeral ==
    {TLS_DHE_RSA_WITH_AES_128_GCM_SHA256,
     TLS_ECDHE_RSA_WITH_AES_128_GCM_SHA256,
     TLS_ECDHE_ECDSA_WITH_AES_128_GCM_SHA256}

EcdheSuites ==
    {TLS_ECDHE_RSA_WITH_AES_128_GCM_SHA256,
     TLS_ECDHE_ECDSA_WITH_AES_128_GCM_SHA256}

\* the step wrote a ServerKeyExchange
KeyExchangeWritten ==
    \E k \in 1..Len(tls.sgt) : tls.sgt[k].type = "ServerKeyExchange"

\* the server's flight went to the record layer whole
FlightSent ==
    /\ tls.r = T_OK
    /\ Len(tls.wire) = 1
    /\ tls.wire[1].ok
    /\ tls.wire[1].msgs[Len(tls.wire[1].msgs)].type = "ServerHelloDone"

\* the places of the server's preference list whose curve the peer offered
PreferredOffered ==
    {g \in 1..Len(ttls_preset_curves) :
        \E k \in 1..Len(tls.curves) : tls.curves[k] = ttls_preset_curves[g]}

\* a suite was chosen for the connection's ClientHello
SuiteChosen == HelloDelivered /\ tls.ci.id # 0

\* C21: ServerKeyExchange is emitted iff the chosen suite uses an ephemeral
\* key exchange; for ECDHE the group used is the first curve of the
\* server's preference list that occurs in hs.curves, and when there is no
\* such curve the step fails without emitting the message.
C21_ServerKeyExchange ==
    SuiteChosen =>
        /\ KeyExchangeWritten => tls.ci.id \in Ephemeral
        /\ FlightSent => (KeyExchangeWritten <=> tls.ci.id \in Ephemeral)
        /\ (KeyExchangeWritten /\ tls.ci.id \in EcdheSuites) =>
              /\ PreferredOffered # {}
              /\ \E g \in PreferredOffered :
                    /\ tls.ecdh_grp = ttls_preset_curves[g]
                    /\ \A j \in PreferredOffered : g <= j
        /\ (tls.ci.id \in EcdheSuites /\ PreferredOffered = {}) =>
              /\ Fatal(tls.r)
              /\ ~KeyExchangeWritten
              /\ tls.wire = <<>>

\* an ECDHE flight for a peer that lists the server's second curve first
C21_Witness ==
    /\ SuiteChosen
    /\ FlightSent
    /\ KeyExchangeWritten
    /\ tls.ci.id = TLS_ECDHE_RSA_WITH_AES_128_GCM_SHA256
    /\ tls.curves[1] = ttls_preset_curves[2]
    /\ tls.curves[2] = ttls_preset_curves[1]
    /\ tls.ecdh_grp = ttls_preset_curves[1]

(***************************************************************************)
(* Chunked delivery of ClientKeyExchange and CertificateVerify.            *)
(***************************************************************************)
\* the ways a message of n bytes is cut: in two at every place, and into
\* single bytes
Cuts(n) == {<<k, n - k>> : k \in 1..(n - 1)} \cup {Rep(n, 1)}

RECURSIVE Deliver(_, _, _, _)
\* the record layer hands message m over in chunks of the lengths sizes;
\* the externals of the last call behave as e says. waited tells whether
\* every call but the last asked for more bytes.
Deliver(t, m, sizes, e) ==
    IF Len(sizes) = 1
    THEN [t |-> RecvResult(t, m, sizes[1], e), waited |-> TRUE]
    ELSE LET t1 == RecvResult(t, m, sizes[1], NoInput)
         IN  IF t1.r # T_POSTPONE THEN [t |-> t1, waited |-> FALSE]
             ELSE Deliver(t1, [m EXCEPT !.pos = @ + sizes[1]],
                          Tail(sizes), e)

\* the peer is about to send the message the server waits for
KeyMessageDue ==
    /\ ~closed
    /\ inmsg.pos = 0
    /\ Len(inmsg.body) > 1
    /\ \/ inmsg.type = "ClientKeyExchange" /\ tls.state = "CLIENT_KEY_EXCHANGE"
       \/ inmsg.type = "CertificateVerify" /\ tls.state = "CERTIFICATE_VERIFY"

\* C22: a ClientKeyExchange or CertificateVerify message delivered in
\* several chunks is processed to the same result (return value of the last
\* chunk, next state) as the same message delivered in one slice, and every
\* chunk but the last returns need-more-bytes.
C22_ChunkedKeyMessages ==
    KeyMessageDue =>
        \A e \in Inputs(tls.state) :
            \A sizes \in Cuts(Len(inmsg.body)) :
                LET whole == RecvResult(tls, inmsg, Len(inmsg.body), e)
                    parts == Deliver(tls, inmsg, sizes, e)
                IN  /\ parts.waited
                    /\ parts.t.r = whole.r
                    /\ parts.t.state = whole.state

(***************************************************************************)
(* The handshake transcript.                                               *)
(***************************************************************************)
\* the handshake messages the server accepted, in the order they came; a
\* ChangeCipherSpec is no handshake message
ReceivedMessages ==
    LET rx == SelectSeq(tls.log, LAMBDA ev : ev[1] = "rx"
                                            /\ ev[2] # "ChangeCipherSpec")
    IN  [k \in 1..Len(rx) |-> rx[k][2]]

\* the lengths a message of the type can have
BodyLengths(type) ==
    IF type = "ClientHello" THEN {Len(hello)}
    ELSE {Len(m.body) : m \in {c \in ClientMsgs : c.type = type}}

\* C23: over a whole handshake the bytes passed to ttls_update_checksum are
\* exactly the received handshake messages (ClientHello, ClientKeyExchange,
\* CertificateVerify when present, Finished), header and body, each byte
\* once and in wire order, and never a ChangeCipherSpec.
C23_TranscriptComplete ==
    tls.state = "HANDSHAKE_OVER" =>
        /\ Len(tls.cksum) = Len(ReceivedMessages)
        /\ \A k \in 1..Len(tls.cksum) :
              /\ k <= Len(ReceivedMessages)
              /\ tls.cksum[k].type = ReceivedMessages[k]
              /\ tls.cksum[k].type # "ChangeCipherSpec"
              /\ tls.cksum[k].hdr
              /\ tls.cksum[k].from = 0
              /\ tls.cksum[k].to \in BodyLengths(tls.cksum[k].type)

(***************************************************************************)
(* The MPI engine (tls/bignum.c).                                          *)
(*                                                                         *)
(* A TlsMpi is the record [s, used, limbs, p]: p is the limb array of      *)
(* capacity limbs, least significant limb first (p[i + 1] is the C p[i]);  *)
(* the empty array is the NULL pointer.  The limb is scaled from 64 bits   *)
(* to BIL bits and the byte to BIC bits, so that a limb still holds CIL    *)
(* bytes and a half limb BIH bits; all limb arithmetic is modulo 2^BIL.    *)
(* A function that returns a status returns the record [r, X] of the       *)
(* status and the destination it leaves.  mpi.heap is what freshly         *)
(* allocated memory holds; an allocation itself does not fail.             *)
(***************************************************************************)
BIC == 2
CIL == 2
BIL == CIL * BIC
BIH == BIL \div 2
BMASK == BIL - 1
LimbBase == Pow2(BIL)
LimbMax == LimbBase - 1
TTLS_MPI_MAX_LIMBS == 170
TTLS_MPI_MAX_SIZE == TTLS_MPI_MAX_LIMBS * CIL
ENOSPC == "-ENOSPC"

Max(a, b) == IF a > b THEN a ELSE b

\* the value v under the name that F gives it: a local definition that is
\* worked out once
With(v, F(_)) == F(v)

BITS_TO_LIMBS(n) == (n + BIL - 1) \div BIL
CHARS_TO_LIMBS(n) == (n + CIL - 1) \div CIL

\* unsigned long arithmetic
LAdd(a, b) == (a + b) % LimbBase
LSub(a, b) == (a - b + LimbBase) % LimbBase
LMul(a, b) == (a * b) % LimbBase
LShl(a, n) == IF n >= BIL THEN 0 ELSE (a * Pow2(n)) % LimbBase
LShr(a, n) == IF n >= BIL THEN 0 ELSE a \div Pow2(n)

\* fls64(): the position of the highest set bit counted from 1, 0 for 0
fls64(a) == IF a = 0 THEN 0 ELSE CHOOSE k \in 1..BIL : Pow2(k - 1) <= a /\ a < Pow2(k)

\* __ffs(): the position of the lowest set bit counted from 0
ffs(a) == CHOOSE k \in 0..(BIL - 1) : (a \div Pow2(k)) % 2 = 1 /\ a % Pow2(k) = 0

\* kmalloc(n * CIL, GFP_ATOMIC)
kmalloc(n) == Rep(n, mpi.heap)

\* the status 0
SUCCESS == "0"

Ok(X) == [r |-> SUCCESS, X |-> X]
Err(e, X) == [r |-> e, X |-> X]

\* X->p[i]; a read behind the allocation finds what the heap holds there
P(X, i) == IF i >= 0 /\ i < Len(X.p) THEN X.p[i + 1] ELSE mpi.heap

\* d[i] and d[i] = v on a bare limb array; a store behind the array shows as
\* an array longer than its capacity
RdL(d, i) == IF i >= 0 /\ i < Len(d) THEN d[i + 1] ELSE mpi.heap
WrL(d, i, v) == IF i < Len(d) THEN [d EXCEPT ![i + 1] = v] ELSE Append(d, v)

\* X->p[i] = v
SetP(X, i, v) == [X EXCEPT !.p = WrL(X.p, i, v)]

\* ttls_mpi_init()
MpiInit == [s |-> 1, used |-> 0, limbs |-> 0, p |-> <<>>]

\* ttls_mpi_free() leaves what ttls_mpi_init() does
ttls_mpi_free(X) == MpiInit

\* __mpi_realloc(X, nblimbs, flags) with the two bits of flags
mpi_realloc(X, nblimbs, grow_copy, grow_zero) ==
    IF nblimbs > TTLS_MPI_MAX_LIMBS THEN Err(ENOMEM, X)
    ELSE IF X.limbs >= nblimbs THEN Ok(X)
    ELSE Ok([X EXCEPT
                !.limbs = nblimbs,
                !.p = [i \in 1..nblimbs |->
                          IF grow_copy /\ X.limbs # 0 /\ i <= X.used
                          THEN X.p[i]
                          ELSE IF grow_zero /\ i > X.used THEN 0
                          ELSE mpi.heap]])

\* ttls_mpi_grow(): the inline wrapper of bignum.h
ttls_mpi_grow(X, nblimbs) == mpi_realloc(X, nblimbs, TRUE, TRUE)

mpi_fixup_used(X, n) ==
    With(Min(n, X.limbs), LAMBDA m :
    With({k \in 2..m : X.p[k] # 0}, LAMBDA nz :
    [X EXCEPT !.used = IF m <= 1 THEN m
                       ELSE IF nz = {} THEN 1
                       ELSE CHOOSE k \in nz : \A j \in nz : j <= k]))

\* memcpy(X->p, Y->p, n * CIL)
LimbCpy(X, Y, n) ==
    [X EXCEPT !.p = [i \in 1..X.limbs |-> IF i <= n THEN Y.p[i] ELSE X.p[i]]]

\* ttls_mpi_copy(X, Y) for X != Y
ttls_mpi_copy(X, Y) ==
    IF Y.limbs = 0 THEN Ok(ttls_mpi_free(X))
    ELSE With(IF X.limbs < Y.used
              THEN mpi_realloc(X, Y.used, FALSE, FALSE) ELSE Ok(X), LAMBDA g :
         IF g.r # SUCCESS THEN Err(ENOMEM, g.X)
         ELSE Ok([LimbCpy(g.X, Y, Y.used) EXCEPT !.s = Y.s, !.used = Y.used]))

\* ttls_mpi_lset(X, z)
ttls_mpi_lset(X, z) ==
    With(mpi_realloc(X, 1, FALSE, FALSE), LAMBDA g :
    IF g.r # SUCCESS THEN Err(ENOMEM, g.X)
    ELSE Ok([SetP(g.X, 0, (IF z < 0 THEN 0 - z ELSE z) % LimbBase)
             EXCEPT !.used = 1, !.s = IF z < 0 THEN 0 - 1 ELSE 1]))

\* the limb loop of both comparisons: 1, -1 or 0 by the most significant
\* limb in which X and Y differ
cmp_limbs(X, Y) ==
    With({i \in 0..(X.used - 1) : P(X, i) # P(Y, i)}, LAMBDA d :
    IF d = {} THEN 0
    ELSE With(CHOOSE k \in d : \A j \in d : j <= k, LAMBDA i :
         IF P(X, i) > P(Y, i) THEN 1 ELSE 0 - 1))

ttls_mpi_cmp_abs(X, Y) ==
    IF X.used = 0 /\ Y.used = 0 THEN 0
    ELSE IF X.used > Y.used THEN 1
    ELSE IF Y.used > X.used THEN 0 - 1
    ELSE cmp_limbs(X, Y)

ttls_mpi_cmp_mpi(X, Y) ==
    IF X.used = 0 /\ Y.used = 0 THEN 0
    ELSE IF X.used > Y.used THEN X.s
    ELSE IF Y.used > X.used THEN 0 - Y.s
    ELSE IF X.s > 0 /\ Y.s < 0 THEN 1
    ELSE IF Y.s > 0 /\ X.s < 0 THEN 0 - 1
    ELSE cmp_limbs(X, Y) * X.s

\* ttls_mpi_cmp_int(X, z)
ttls_mpi_cmp_int(X, z) ==
    IF X.used > 1 THEN X.s
    ELSE IF X.used = 0 THEN (IF z = 0 THEN 0 ELSE IF z < 0 THEN 1 ELSE 0 - 1)
    ELSE IF z < 0 /\ X.s > 0 THEN 1
    ELSE IF z >= 0 /\ X.s < 0 THEN 0 - 1
    ELSE LET a == IF z < 0 THEN 0 - z ELSE z
         IN  IF a = P(X, 0) THEN 0
             ELSE IF P(X, 0) > a THEN X.s ELSE 0 - X.s

ttls_mpi_bitlen(X) ==
    IF X.used = 0 \/ P(X, X.used - 1) = 0 THEN 0
    ELSE (X.used - 1) * BIL + fls64(P(X, X.used - 1))

ttls_mpi_size(X) == (ttls_mpi_bitlen(X) + (BIC - 1)) \div BIC

\* (a >> k) & 1
LBit(a, k) == (a \div Pow2(k)) % 2

ttls_mpi_get_bit(X, pos) ==
    IF X.used * BIL <= pos THEN 0
    ELSE LBit(P(X, pos \div BIL), pos % BIL)

ttls_mpi_set_bit(X, pos, val) ==
    LET off == pos \div BIL
        idx == pos % BIL
        put(Y) == SetP(Y, off, P(Y, off) - LBit(P(Y, off), idx) * Pow2(idx)
                                         + val * Pow2(idx))
    IN  IF X.used * BIL <= pos
        THEN IF val = 0 THEN Ok(X)
             ELSE With(IF X.limbs * BIL <= pos
                       THEN ttls_mpi_grow(X, off + 1) ELSE Ok(X), LAMBDA g :
                  IF g.r # SUCCESS THEN Err(ENOMEM, g.X)
                  ELSE Ok(put([g.X EXCEPT
                                 !.p = [i \in 1..g.X.limbs |->
                                          IF i > X.used /\ i <= off + 1
                                          THEN 0 ELSE g.X.p[i]],
                                 !.used = off + 1])))
        ELSE Ok(put(X))

ttls_mpi_lsb(X) ==
    With({i \in 0..(X.used - 1) : P(X, i) # 0}, LAMBDA nz :
    IF nz = {} THEN 0
    ELSE With(CHOOSE k \in nz : \A j \in nz : k <= j, LAMBDA i :
         i * BIL + ffs(P(X, i))))

ttls_mpi_shift_l(X, count) ==
    With(ttls_mpi_bitlen(X), LAMBDA bits :
    LET old_used == X.used
        i == bits + count
        v0 == count \div BIL
        t1 == count % BIL
        fresh == X.limbs * BIL < i
        used == BITS_TO_LIMBS(i)
        limbs == IF fresh THEN used ELSE X.limbs
    IN  IF bits = 0 THEN Ok(X)
        ELSE \* the array after the shift by whole limbs, then by bits
             With([k \in 1..limbs |->
                     IF k > used THEN X.p[k]
                     ELSE IF v0 > 0
                     THEN (IF k > v0 THEN P(X, k - v0 - 1) ELSE 0)
                     ELSE IF fresh
                     THEN (IF k <= old_used THEN X.p[k]
                           ELSE IF k = old_used + 1 THEN 0 ELSE mpi.heap)
                     ELSE X.p[k]], LAMBDA q :
             Ok([X EXCEPT
                   !.used = used, !.limbs = limbs,
                   !.p = [k \in 1..limbs |->
                            IF t1 = 0 \/ k <= v0 \/ k > used THEN q[k]
                            ELSE LAdd(LShl(q[k], t1),
                                      IF k = v0 + 1 THEN 0
                                      ELSE LShr(q[k - 1], BIL - t1))]])))

ttls_mpi_shift_r(X, count) ==
    LET v0 == count \div BIL
        v1 == count % BIL
        used == IF v0 > 0 THEN X.used - v0 ELSE X.used
    IN  IF X.used = 0 \/ P(X, X.used - 1) = 0 THEN Ok(X)
        ELSE IF v0 > X.used \/ (v0 = X.used /\ v1 > 0) THEN ttls_mpi_lset(X, 0)
        ELSE With([k \in 1..X.limbs |->
                     IF v0 > 0 /\ k <= used THEN X.p[k + v0] ELSE X.p[k]], LAMBDA q :
             With([k \in 1..X.limbs |->
                     IF v1 = 0 \/ k > used THEN q[k]
                     ELSE LAdd(LShr(q[k], v1),
                               IF k = used THEN 0 ELSE LShl(q[k + 1], BIL - v1))],
                  LAMBDA p :
             Ok([X EXCEPT !.p = p,
                          !.used = IF v1 > 0 /\ p[used] = 0
                                   THEN used - 1 ELSE used])))

\* the value of the bytes buf[lo..hi], the first one most significant
BytesBE(buf, lo, hi) ==
    LET RECURSIVE be(_, _)
        be(k, acc) == IF k > hi THEN acc ELSE be(k + 1, acc * Pow2(BIC) + buf[k])
    IN  be(lo, 0)

ttls_mpi_read_binary(X, buf) ==
    LET buflen == Len(buf)
        limbs == CHARS_TO_LIMBS(buflen)
        cap == IF X.limbs < limbs THEN limbs ELSE X.limbs
        old(k) == IF X.limbs < limbs THEN mpi.heap ELSE X.p[k]
        full == buflen \div CIL
        p == [k \in 1..cap |->
                IF k <= full
                THEN BytesBE(buf, buflen - k * CIL + 1, buflen - (k - 1) * CIL)
                ELSE IF k = full + 1 /\ buflen % CIL # 0
                THEN BytesBE(buf, 1, buflen % CIL)
                ELSE old(k)]
    IN  Ok(mpi_fixup_used([X EXCEPT !.s = 1, !.limbs = cap, !.p = p], limbs))

\* the byte j of X counted from the least significant one
MpiByte(X, j) == (P(X, j \div CIL) \div Pow2((j % CIL) * BIC)) % Pow2(BIC)

\* ttls_mpi_write_binary(X, buf, buflen): the status and the buffer it leaves
ttls_mpi_write_binary(X, buf) ==
    With(ttls_mpi_size(X), LAMBDA n :
    LET buflen == Len(buf)
    IN  IF buflen < n THEN [r |-> ENOSPC, buf |-> buf]
        ELSE [r |-> SUCCESS,
              buf |-> [k \in 1..buflen |->
                         IF k > buflen - n THEN MpiByte(X, buflen - k) ELSE 0]])

\* ttls_mpi_fill_random(X, size) when ttls_rnd() writes the bytes rnd
ttls_mpi_fill_random(X, rnd) ==
    LET size == Len(rnd)
        limbs == CHARS_TO_LIMBS(size)
        byte(j) == IF j < size THEN rnd[j + 1] ELSE 0
        RECURSIVE le(_, _)
        le(k, b) == IF b = CIL THEN 0
                    ELSE byte(k * CIL + b) * Pow2(b * BIC) + le(k, b + 1)
    IN  IF size > TTLS_MPI_MAX_SIZE THEN Err(EINVAL, X)
        ELSE With(mpi_realloc(X, limbs, FALSE, FALSE), LAMBDA g :
             IF g.r # SUCCESS THEN Err(ENOMEM, g.X)
             ELSE Ok([g.X EXCEPT
                        !.p = [k \in 1..g.X.limbs |->
                                 IF k <= limbs
                                 THEN le(k - 1, 0)
                                 ELSE g.X.p[k]],
                        !.used = limbs,
                        !.s = 1]))

\* ttls_mpi_safe_cond_assign(X, Y, assign): assign is a byte
ttls_mpi_safe_cond_assign(X, Y, assign) ==
    With(ttls_mpi_grow(X, Y.used), LAMBDA g :
    LET a == IF assign = 0 THEN 0 ELSE 1
    IN  IF g.r # SUCCESS THEN Err(ENOMEM, g.X)
        ELSE Ok([g.X EXCEPT
                    !.s = X.s * (1 - a) + Y.s * a,
                    !.used = X.used * (1 - a) + Y.used * a,
                    !.p = [k \in 1..g.X.limbs |->
                             IF k <= Y.used
                             THEN g.X.p[k] * (1 - a) + Y.p[k] * a
                             ELSE g.X.p[k]]]))

\* ttls_mpi_safe_cond_swap() without the temporary of its loop: Y->p[i] is
\* computed from the X->p[i] already stored
ttls_mpi_safe_cond_swap_no_tmp(X, Y, swap) ==
    With(ttls_mpi_grow(X, Y.used), LAMBDA gx :
    With(ttls_mpi_grow(Y, gx.X.used), LAMBDA gy :
    LET w == IF swap = 0 THEN 0 ELSE 1
        used == Max(X.used * (1 - w) + Y.used * w, Y.used * (1 - w) + X.used * w)
        xp == [k \in 1..gx.X.limbs |->
                 IF k <= used THEN gx.X.p[k] * (1 - w) + gy.X.p[k] * w
                 ELSE gx.X.p[k]]
    IN  IF gx.r # SUCCESS THEN [r |-> ENOMEM, X |-> gx.X, Y |-> Y]
        ELSE IF gy.r # SUCCESS THEN [r |-> ENOMEM, X |-> gx.X, Y |-> gy.X]
        ELSE [r |-> SUCCESS,
              X |-> [gx.X EXCEPT
                       !.s = X.s * (1 - w) + Y.s * w,
                       !.used = X.used * (1 - w) + Y.used * w,
                       !.p = xp],
              Y |-> [gy.X EXCEPT
                       !.s = Y.s * (1 - w) + X.s * w,
                       !.used = Y.used * (1 - w) + X.used * w,
                       !.p = [k \in 1..gy.X.limbs |->
                                IF k <= used
                                THEN gy.X.p[k] * (1 - w) + xp[k] * w
                                ELSE gy.X.p[k]]]]))

\* ttls_mpi_safe_cond_swap(X, Y, swap) for X != Y: [r, X, Y]
ttls_mpi_safe_cond_swap(X, Y, swap) ==
    With(ttls_mpi_grow(X, Y.used), LAMBDA gx :
    With(ttls_mpi_grow(Y, gx.X.used), LAMBDA gy :
    LET w == IF swap = 0 THEN 0 ELSE 1
        used == Max(X.used * (1 - w) + Y.used * w, Y.used * (1 - w) + X.used * w)
    IN  IF gx.r # SUCCESS THEN [r |-> ENOMEM, X |-> gx.X, Y |-> Y]
        ELSE IF gy.r # SUCCESS THEN [r |-> ENOMEM, X |-> gx.X, Y |-> gy.X]
        ELSE [r |-> SUCCESS,
              X |-> [gx.X EXCEPT
                       !.s = X.s * (1 - w) + Y.s * w,
                       !.used = X.used * (1 - w) + Y.used * w,
                       !.p = [k \in 1..gx.X.limbs |->
                                IF k <= used
                                THEN gx.X.p[k] * (1 - w) + gy.X.p[k] * w
                                ELSE gx.X.p[k]]],
              Y |-> [gy.X EXCEPT
                       !.s = Y.s * (1 - w) + X.s * w,
                       !.used = Y.used * (1 - w) + X.used * w,
                       !.p = [k \in 1..gy.X.limbs |->
                                IF k <= used
                                THEN gy.X.p[k] * (1 - w) + gx.X.p[k] * w
                                ELSE gy.X.p[k]]]]))

\* the magnitude and the value an MPI stands for: its used limbs, limb 0 the
\* least significant one, and its sign
MpiAbs(X) ==
    LET RECURSIVE mag(_)
        mag(k) == IF k = 0 THEN 0 ELSE X.p[k] * Pow2(BIL * (k - 1)) + mag(k - 1)
    IN  mag(X.used)

MpiVal(X) == X.s * MpiAbs(X)

\* the limbs of the magnitude v, at least one
LimbsOf(v) ==
    LET RECURSIVE ls(_)
        ls(u) == IF u < LimbBase THEN <<u>> ELSE <<u % LimbBase>> \o ls(u \div LimbBase)
    IN  ls(v)

\* the MPI of sign s and magnitude v as the engine holds it in an array of
\* Len(LimbsOf(v)) + extra limbs, the limbs behind the used ones holding stale
MkMpi(s, v, extra, stale) ==
    [s |-> s, used |-> Len(LimbsOf(v)), limbs |-> Len(LimbsOf(v)) + extra,
     p |-> LimbsOf(v) \o Rep(extra, stale)]

\* BUG_ON(): the kernel stops here
EBUG == "BUG"

\* ttls_mpi_add_abs(X, A, Bn) for A != Bn; al tells which operand, "A", "B" or
\* "none", the destination X is, and X is passed in place of that operand
ttls_mpi_add_abs(X, A, Bn, al) ==
    LET A1 == IF al = "none" THEN A ELSE X
        B1 == IF al = "B" THEN A ELSE Bn
        m == Max(A1.used, B1.used)
        top(Y) == LBit(P(Y, m - 1), BIL - 1) = 1
        n == IF \/ A1.used > B1.used /\ top(A1)
                \/ B1.used > A1.used /\ top(B1)
                \/ A1.used = B1.used /\ (top(A1) \/ top(B1))
             THEN m + 1 ELSE m
        \* the state of both loops: the array x, X->used, the carry c, the index i
        first(st) ==
            LET i == st.i
                x0 == IF i = st.used THEN st.c ELSE LAdd(P(A1, i), st.c)
                c0 == IF x0 < st.c THEN 1 ELSE 0
                x1 == LAdd(x0, P(B1, i))
            IN  [x |-> [st.x EXCEPT ![i + 1] = x1],
                 used |-> IF i = st.used THEN st.used + 1 ELSE st.used,
                 c |-> c0 + (IF x1 < P(B1, i) THEN 1 ELSE 0),
                 i |-> i + 1]
        second(st) ==
            LET i == st.i
                x0 == IF i = st.used THEN st.c ELSE LAdd(P(A1, i), st.c)
            IN  [x |-> [st.x EXCEPT ![i + 1] = x0],
                 used |-> IF i = st.used THEN st.used + 1 ELSE st.used,
                 c |-> IF x0 < st.c THEN 1 ELSE 0,
                 i |-> i + 1]
        RECURSIVE loop1(_)
        loop1(st) == IF st.i < B1.used THEN loop1(first(st)) ELSE st
        RECURSIVE loop2(_, _)
        loop2(st, limbs) ==
            IF st.c = 0 \/ st.i >= limbs THEN st ELSE loop2(second(st), limbs)
    IN  With(mpi_realloc([X EXCEPT !.s = 1], n, al # "none", FALSE), LAMBDA g :
        IF g.r # SUCCESS THEN Err(ENOMEM, g.X)
        ELSE With(loop2(loop1([x |-> g.X.p, used |-> A1.used, c |-> 0, i |-> 0]),
                        g.X.limbs), LAMBDA fin :
             IF fin.c # 0
             THEN Err(EBUG, [g.X EXCEPT !.p = fin.x, !.used = fin.used])
             ELSE Ok([g.X EXCEPT
                        !.used = fin.used,
                        !.p = [k \in 1..g.X.limbs |->
                                 IF al = "none" /\ k > fin.i /\ k <= fin.used
                                 THEN A1.p[k] ELSE fin.x[k]]])))

\* __mpi_sub(a, a_len, b, b_len, r) on the array r: the array it leaves and
\* whether the borrow ran behind a_len
mpi_sub(A, Bn, r) ==
    LET first(st) ==
            LET i == st.i
                z == IF P(A, i) < st.c THEN 1 ELSE 0
                r0 == LSub(P(A, i), st.c)
            IN  [r |-> [st.r EXCEPT ![i + 1] = LSub(r0, P(Bn, i))],
                 c |-> (IF r0 < P(Bn, i) THEN 1 ELSE 0) + z,
                 i |-> i + 1]
        second(st) ==
            LET i == st.i
            IN  [r |-> [st.r EXCEPT ![i + 1] = LSub(P(A, i), st.c)],
                 c |-> IF P(A, i) < st.c THEN 1 ELSE 0,
                 i |-> i + 1]
        RECURSIVE loop1(_)
        loop1(st) == IF st.i < Bn.used THEN loop1(first(st)) ELSE st
        RECURSIVE loop2(_)
        loop2(st) == IF st.c = 0 \/ st.i >= A.used THEN st ELSE loop2(second(st))
    IN  With(loop2(loop1([r |-> r, c |-> 0, i |-> 0])), LAMBDA fin :
        [bug |-> A.used < Bn.used \/ fin.c # 0,
         r |-> [k \in 1..Len(r) |->
                  IF k > fin.i /\ k <= A.used THEN A.p[k] ELSE fin.r[k]]])

\* ttls_mpi_sub_abs(X, A, Bn); X may be A or Bn
ttls_mpi_sub_abs(X, A, Bn) ==
    IF ttls_mpi_cmp_abs(A, Bn) < 0 THEN Err(EINVAL, X)
    ELSE LET fresh == X.limbs < A.used
         IN  With(mpi_sub(A, Bn, IF fresh THEN kmalloc(A.used) ELSE X.p), LAMBDA d :
             IF d.bug THEN Err(EBUG, X)
             ELSE Ok(mpi_fixup_used([X EXCEPT
                                       !.s = 1,
                                       !.p = d.r,
                                       !.limbs = IF fresh THEN A.used ELSE X.limbs],
                                    A.used)))

\* ttls_mpi_add_mpi(X, A, Bn)
ttls_mpi_add_mpi(X, A, Bn, al) ==
    With(IF A.s * Bn.s < 0
         THEN IF ttls_mpi_cmp_abs(A, Bn) >= 0
              THEN [g |-> ttls_mpi_sub_abs(X, A, Bn), s |-> A.s]
              ELSE [g |-> ttls_mpi_sub_abs(X, Bn, A), s |-> 0 - A.s]
         ELSE [g |-> ttls_mpi_add_abs(X, A, Bn, al), s |-> A.s], LAMBDA d :
    IF d.g.r # SUCCESS THEN d.g ELSE Ok([d.g.X EXCEPT !.s = d.s]))

\* ttls_mpi_sub_mpi(X, A, Bn)
ttls_mpi_sub_mpi(X, A, Bn, al) ==
    With(IF A.s * Bn.s > 0
         THEN IF ttls_mpi_cmp_abs(A, Bn) >= 0
              THEN [g |-> ttls_mpi_sub_abs(X, A, Bn), s |-> A.s]
              ELSE [g |-> ttls_mpi_sub_abs(X, Bn, A), s |-> 0 - A.s]
         ELSE [g |-> ttls_mpi_add_abs(X, A, Bn, al), s |-> A.s], LAMBDA d :
    IF d.g.r # SUCCESS THEN d.g ELSE Ok([d.g.X EXCEPT !.s = d.s]))

\* the one-limb MPI _B that the _int variants build on the stack
IntMpi(b) ==
    [s |-> IF b < 0 THEN 0 - 1 ELSE 1, used |-> 1, limbs |-> 1,
     p |-> <<(IF b < 0 THEN 0 - b ELSE b) % LimbBase>>]

\* ttls_mpi_add_int(X, A, b); al is "A" when X is A and "none" otherwise
ttls_mpi_add_int(X, A, b, al) == ttls_mpi_add_mpi(X, A, IntMpi(b), al)

ttls_mpi_sub_int(X, A, b, al) == ttls_mpi_sub_mpi(X, A, IntMpi(b), al)

\* __mpi_mul(n, s, d + off, b): d[off + k] += s[k] * b with the carry, then
\* the carry chain
mpi_mul(n, s, d, off, b) ==
    LET RECURSIVE chain(_, _, _)
        chain(x, i, c) ==
            IF c = 0 THEN x
            ELSE LET v == LAdd(RdL(x, i), c)
                 IN  chain(WrL(x, i, v), i + 1, IF v < c THEN 1 ELSE 0)
        RECURSIVE core(_, _, _)
        core(x, k, c) ==
            IF k = n THEN chain(x, off + n, c)
            ELSE LET t == RdL(s, k) * b + c + RdL(x, off + k)
                 IN  core(WrL(x, off + k, t % LimbBase), k + 1, t \div LimbBase)
    IN  core(d, 0, 0)

\* ttls_mpi_mul_mpi(X, A, Bn); X may be A or Bn, which are then copied first
ttls_mpi_mul_mpi(X, A, Bn) ==
    With(mpi_realloc(X, A.used + Bn.used, FALSE, FALSE), LAMBDA g :
    LET i == A.used
        j == Bn.used
        RECURSIVE rows(_, _)
        rows(x, jj) == IF jj = 0 THEN x
                       ELSE rows(mpi_mul(i, A.p, x, jj - 1, P(Bn, jj - 1)), jj - 1)
    IN  IF g.r # SUCCESS THEN g
        ELSE Ok([mpi_fixup_used(
                    [g.X EXCEPT
                       !.p = rows([k \in 1..g.X.limbs |->
                                     IF k <= i + j THEN 0 ELSE g.X.p[k]], j),
                       !.used = i + j],
                    i + j)
                 EXCEPT !.s = A.s * Bn.s]))

\* ttls_mpi_mul_uint(X, A, b)
ttls_mpi_mul_uint(X, A, b) ==
    ttls_mpi_mul_mpi(X, A, [s |-> 1, used |-> 1, limbs |-> 1, p |-> <<b>>])

\* The quotient of ttls_int_div_int() with its low half left out: the high
\* half digit alone, which is too small by up to radix - 1.
int_div_int_high(u1, u0, d) ==
    With(BIL - fls64(d), LAMBDA s :
    With(LShl(d, s), LAMBDA dn :
    With(LAdd(LShl(u1, s), IF s > 0 THEN LShr(u0, BIL - s) ELSE 0), LAMBDA u1n :
    LET radix == Pow2(BIH)
        u0n == LShl(u0, s)
        d1 == dn \div radix
        d0 == dn % radix
        u0_msw == u0n \div radix
        RECURSIVE fix(_, _, _, _)
        fix(q, r0, w, cnt) ==
            IF q >= radix \/ LMul(q, d0) > LAdd(LMul(radix, r0), w)
            THEN IF LAdd(r0, d1) >= radix
                 THEN [q |-> LSub(q, 1), loops |-> cnt + 1]
                 ELSE fix(LSub(q, 1), LAdd(r0, d1), w, cnt + 1)
            ELSE [q |-> q, loops |-> cnt]
    IN  IF d = 0 \/ u1 >= d THEN [q |-> LimbMax, loops |-> 0]
        ELSE With(fix(u1n \div d1, LSub(u1n, LMul(d1, u1n \div d1)), u0_msw, 0),
                  LAMBDA q1 :
             [q |-> LMul(q1.q, radix), loops |-> q1.loops]))))

\* ttls_int_div_int(u1, u0, d, NULL): [q, loops] with the number of times
\* the two correction loops ran
ttls_int_div_int(u1, u0, d) ==
    With(BIL - fls64(d), LAMBDA s :
    With(LShl(d, s), LAMBDA dn :
    With(LAdd(LShl(u1, s), IF s > 0 THEN LShr(u0, BIL - s) ELSE 0), LAMBDA u1n :
    LET radix == Pow2(BIH)
        u0n == LShl(u0, s)
        d1 == dn \div radix
        d0 == dn % radix
        u0_msw == u0n \div radix
        u0_lsw == u0n % radix
        \* while (q >= radix || q * d0 > radix * r0 + w) { --q; r0 += d1;
        \*         if (r0 >= radix) break; }
        RECURSIVE fix(_, _, _, _)
        fix(q, r0, w, cnt) ==
            IF q >= radix \/ LMul(q, d0) > LAdd(LMul(radix, r0), w)
            THEN IF LAdd(r0, d1) >= radix
                 THEN [q |-> LSub(q, 1), loops |-> cnt + 1]
                 ELSE fix(LSub(q, 1), LAdd(r0, d1), w, cnt + 1)
            ELSE [q |-> q, loops |-> cnt]
    IN  IF d = 0 \/ u1 >= d THEN [q |-> LimbMax, loops |-> 0]
        ELSE With(fix(u1n \div d1, LSub(u1n, LMul(d1, u1n \div d1)), u0_msw, 0),
                  LAMBDA q1 :
             With(LAdd(LMul(u1n, radix), LSub(u0_msw, LMul(q1.q, dn))), LAMBDA rAX :
             With(fix(rAX \div d1, LSub(rAX, LMul(rAX \div d1, d1)), u0_lsw, 0),
                  LAMBDA q0 :
             [q |-> LAdd(LMul(q1.q, radix), q0.q),
              loops |-> q1.loops + q0.loops]))))))

\* The long division of ttls_mpi_div_mpi() once the short cases are gone.
\* st is [r, X, Y, Q, T1, loops]: the status, the locals X, Y and T1, the
\* quotient and the largest number of rounds a correction loop made.
DivFail(st) == [st EXCEPT !.r = ENOMEM]

\* one round of the do-while: the decremented digit and T1 = (Y[t-1..t]) * digit
div_round(st, Y, t, idx) ==
    With(mpi_fixup_used([st.T1 EXCEPT !.s = 1, !.used = 2,
                                      !.p[1] = IF t < 1 THEN 0 ELSE P(Y, t - 1),
                                      !.p[2] = P(Y, t)], 2), LAMBDA T1a :
    With(ttls_mpi_mul_uint(T1a, T1a, LSub(P(st.Q, idx), 1)), LAMBDA m :
    [st EXCEPT !.Q = SetP(st.Q, idx, LSub(P(st.Q, idx), 1)), !.T1 = m.X,
               !.r = IF m.r # SUCCESS THEN ENOMEM ELSE SUCCESS]))

\* The body of the main loop for the digit i, in its three steps.
\* The estimate of the digit and the do-while that corrects it:
div_estimate(st, Y, t, i) ==
    With(IF P(st.X, i) >= P(Y, t) THEN [q |-> 0, loops |-> 0]
         ELSE With(ttls_int_div_int(P(st.X, i), P(st.X, i - 1), P(Y, t)), LAMBDA d :
              [q |-> LAdd(d.q, 1), loops |-> d.loops]),
         LAMBDA e :
    With(mpi_fixup_used([s |-> 1, used |-> 3, limbs |-> 3,
                         p |-> <<IF i < 2 THEN 0 ELSE P(st.X, i - 2),
                                 IF i < 1 THEN 0 ELSE P(st.X, i - 1),
                                 P(st.X, i)>>], 3), LAMBDA T2 :
    LET idx == i - t - 1
        RECURSIVE rounds(_, _)
        rounds(s1, cnt) ==
            With(div_round(s1, Y, t, idx), LAMBDA s2 :
            IF s2.r # SUCCESS THEN s2
            ELSE IF ttls_mpi_cmp_mpi(s2.T1, T2) > 0 /\ cnt < LimbBase
            THEN rounds(s2, cnt + 1)
            ELSE [s2 EXCEPT !.loops = Max(s2.loops, cnt + 1)])
    IN  rounds([st EXCEPT !.Q = SetP(st.Q, idx, e.q),
                          !.loops = Max(st.loops, e.loops)], 0)))

\* T1 = Y * Q[i-t-1] << (BIL * (i-t-1)); X -= T1.  neg tells that X went
\* below zero.
div_subtract(s3, Y, t, i) ==
    IF s3.r # SUCCESS THEN s3
    ELSE With(ttls_mpi_mul_uint(s3.T1, Y, P(s3.Q, i - t - 1)), LAMBDA m :
         IF m.r # SUCCESS THEN DivFail([s3 EXCEPT !.T1 = m.X])
         ELSE With(ttls_mpi_shift_l(m.X, BIL * (i - t - 1)), LAMBDA sh :
              With(ttls_mpi_sub_mpi(s3.X, s3.X, sh.X, "A"), LAMBDA d :
              IF d.r # SUCCESS THEN DivFail([s3 EXCEPT !.T1 = sh.X, !.X = d.X])
              ELSE [s3 EXCEPT !.T1 = sh.X, !.X = d.X])))

\* if (X < 0) { T1 = Y << (BIL * (i-t-1)); X += T1; Q[i-t-1]--; }
div_addback(s4, Y, t, i) ==
    IF s4.r # SUCCESS THEN s4
    ELSE IF ttls_mpi_cmp_int(s4.X, 0) >= 0 THEN s4
    ELSE With(ttls_mpi_copy(s4.T1, Y), LAMBDA c :
         IF c.r # SUCCESS THEN DivFail([s4 EXCEPT !.T1 = c.X])
         ELSE With(ttls_mpi_shift_l(c.X, BIL * (i - t - 1)), LAMBDA csh :
              With(ttls_mpi_add_mpi(s4.X, s4.X, csh.X, "A"), LAMBDA a :
              IF a.r # SUCCESS THEN DivFail([s4 EXCEPT !.T1 = csh.X, !.X = a.X])
              ELSE [s4 EXCEPT !.T1 = csh.X, !.X = a.X,
                              !.Q = SetP(s4.Q, i - t - 1,
                                         LSub(P(s4.Q, i - t - 1), 1))])))

div_digit(st, Y, t, i) ==
    div_addback(div_subtract(div_estimate(st, Y, t, i), Y, t, i), Y, t, i)

\* ttls_mpi_div_mpi(Q, R, A, Bn): [r, Q, R, loops].  hasQ and hasR tell
\* whether Q and R are given (not NULL); R may be A.
ttls_mpi_div_mpi(Q, R, A, Bn, hasQ, hasR) ==
    LET out(r, Q1, R1, l) == [r |-> r, Q |-> Q1, R |-> R1, loops |-> l]
        \* the short cases: a copy for the quotient q and one for the remainder r
        short(q, r) ==
            IF hasQ /\ q.r # SUCCESS THEN out(ENOMEM, q.X, R, 0)
            ELSE IF hasR /\ r.r # SUCCESS
            THEN out(ENOMEM, IF hasQ THEN q.X ELSE Q, r.X, 0)
            ELSE out(SUCCESS, IF hasQ THEN q.X ELSE Q, IF hasR THEN r.X ELSE R, 0)
    IN  IF ttls_mpi_cmp_int(Bn, 0) = 0 THEN out(EINVAL, Q, R, 0)
        \* B = 1
        ELSE IF ttls_mpi_cmp_int(Bn, 1) = 0
        THEN short(ttls_mpi_copy(Q, A), ttls_mpi_lset(R, 0))
        \* |A| < |B|
        ELSE IF ttls_mpi_cmp_abs(A, Bn) < 0
        THEN short(ttls_mpi_lset(Q, 0), ttls_mpi_copy(R, A))
        \* the long division
        ELSE With(ttls_mpi_copy(MpiInit, A), LAMBDA X0 :
             With(ttls_mpi_copy(MpiInit, Bn), LAMBDA Y0 :
             With(mpi_realloc(MpiInit, 2, FALSE, FALSE), LAMBDA T10 :
             With(mpi_realloc(IF hasQ THEN Q ELSE MpiInit, A.used, FALSE, FALSE),
                  LAMBDA Q0 :
        IF X0.r # SUCCESS \/ Y0.r # SUCCESS \/ T10.r # SUCCESS
        THEN out(ENOMEM, Q, R, 0)
        ELSE IF Q0.r # SUCCESS THEN out(ENOMEM, Q, R, 0)
        ELSE With(ttls_mpi_bitlen(Y0.X) % BIL, LAMBDA kb :
             With(IF kb < BIL - 1 THEN BIL - 1 - kb ELSE 0, LAMBDA k :
             With(IF kb < BIL - 1
                  THEN ttls_mpi_shift_l([X0.X EXCEPT !.s = 1], k).X
                  ELSE [X0.X EXCEPT !.s = 1], LAMBDA X1 :
             With(IF kb < BIL - 1
                  THEN ttls_mpi_shift_l([Y0.X EXCEPT !.s = 1], k).X
                  ELSE [Y0.X EXCEPT !.s = 1], LAMBDA Y1 :
             With(X1.used - 1, LAMBDA n :
             With(Y1.used - 1, LAMBDA t :
             With(ttls_mpi_shift_l(Y1, BIL * (n - t)).X, LAMBDA Y2 :
             With(ttls_mpi_shift_r(Y2, BIL * (n - t)).X, LAMBDA Y3 :
        LET Qz == [Q0.X EXCEPT !.used = A.used,
                               !.p = [j \in 1..Q0.X.limbs |->
                                        IF j <= A.used THEN 0 ELSE Q0.X.p[j]]]
            \* while (X >= Y) { Q->p[n - t]++; X -= Y; }
            RECURSIVE lead(_, _)
            lead(st, cnt) ==
                IF st.r = SUCCESS /\ ttls_mpi_cmp_mpi(st.X, Y2) >= 0 /\ cnt < LimbBase
                THEN With(ttls_mpi_sub_mpi(st.X, st.X, Y2, "A"), LAMBDA d :
                     lead([st EXCEPT
                             !.Q = SetP(st.Q, n - t, LAdd(P(st.Q, n - t), 1)),
                             !.X = d.X,
                             !.r = IF d.r # SUCCESS THEN ENOMEM ELSE SUCCESS,
                             !.loops = Max(st.loops, cnt + 1)], cnt + 1))
                ELSE st
            RECURSIVE digits(_, _)
            digits(st, i) == IF st.r # SUCCESS \/ i <= t THEN st
                             ELSE digits(div_digit(st, Y3, t, i), i - 1)
        IN  With(digits(lead([r |-> SUCCESS, X |-> X1, Q |-> Qz, T1 |-> T10.X,
                              loops |-> 0], 0), n), LAMBDA s1 :
            With(ttls_mpi_shift_r(s1.X, k).X, LAMBDA Xr :
            With(ttls_mpi_copy(R, [mpi_fixup_used(Xr, Xr.used) EXCEPT !.s = A.s]),
                 LAMBDA rc :
            With(IF hasQ
                 THEN mpi_fixup_used([s1.Q EXCEPT !.s = A.s * Bn.s], s1.Q.used)
                 ELSE Q, LAMBDA Qf :
            IF s1.r # SUCCESS
            THEN out(ENOMEM, IF hasQ THEN s1.Q ELSE Q, R, s1.loops)
            ELSE IF ~hasR THEN out(SUCCESS, Qf, R, s1.loops)
            ELSE IF rc.r # SUCCESS THEN out(ENOMEM, Qf, rc.X, s1.loops)
            ELSE out(SUCCESS, Qf,
                     IF ttls_mpi_cmp_int(rc.X, 0) = 0
                     THEN [rc.X EXCEPT !.s = 1] ELSE rc.X,
                     s1.loops)))))))))))))))))

\* The remainder of the division as ttls_mpi_div_mpi() leaves it, of the sign
\* of A: ttls_mpi_mod_mpi() without its two corrective loops.
mod_mpi_remainder(R, A, Bn) ==
    IF ttls_mpi_cmp_int(Bn, 0) < 0 THEN [r |-> EINVAL, X |-> R, fixes |-> 0]
    ELSE With(ttls_mpi_div_mpi(MpiInit, R, A, Bn, FALSE, TRUE), LAMBDA d :
         [r |-> d.r, X |-> d.R, fixes |-> 0])

\* ttls_mpi_mod_mpi(R, A, Bn): [r, X, fixes] with the number of corrective
\* additions and subtractions made after the division; R may be A
ttls_mpi_mod_mpi(R, A, Bn) ==
    LET RECURSIVE up(_, _)
        up(g, cnt) ==
            IF g.r = SUCCESS /\ ttls_mpi_cmp_int(g.X, 0) < 0 /\ cnt < LimbBase
            THEN up(ttls_mpi_add_mpi(g.X, g.X, Bn, "A"), cnt + 1)
            ELSE [r |-> g.r, X |-> g.X, fixes |-> cnt]
        RECURSIVE down(_)
        down(g) ==
            IF g.r = SUCCESS /\ ttls_mpi_cmp_mpi(g.X, Bn) >= 0 /\ g.fixes < 2 * LimbBase
            THEN With(ttls_mpi_sub_mpi(g.X, g.X, Bn, "A"), LAMBDA e :
                 down([r |-> e.r, X |-> e.X, fixes |-> g.fixes + 1]))
            ELSE g
    IN  IF ttls_mpi_cmp_int(Bn, 0) < 0 THEN [r |-> EINVAL, X |-> R, fixes |-> 0]
        ELSE With(ttls_mpi_div_mpi(MpiInit, R, A, Bn, FALSE, TRUE), LAMBDA d :
             IF d.r # SUCCESS THEN [r |-> d.r, X |-> d.R, fixes |-> 0]
             ELSE down(up(Ok(d.R), 0)))

\* __mpi_montg_init(&mm, N): the Newton rounds double the 4 valid bits of x
\* while the limb is wider than that
mpi_montg_init(N) ==
    LET m0 == P(N, 0)
        x0 == LAdd(m0, LShl(LBit(LAdd(m0, 2), 2) * 4, 1))
        RECURSIVE newton(_, _)
        newton(x, i) == IF i >= 8
                        THEN newton(LMul(x, LSub(2, LMul(m0, x))), i \div 2)
                        ELSE x
    IN  LSub(0, newton(x0, BIL))

\* __mpi_montmul(A, Bn, N, mm, T): [r, X] with the A it leaves.  T is
\* cleared on entry, so that only its capacity tlimbs matters.
mpi_montmul(A, Bn, N, mm, tlimbs) ==
    LET n == N.used
        m == IF Bn.used < n THEN Bn.used ELSE n
        RECURSIVE loop(_, _)
        loop(d, i) ==
            IF i = n THEN d
            ELSE LET u0 == P(A, i)
                     u1 == LMul(LAdd(RdL(d, i), LMul(u0, P(Bn, 0))), mm)
                     d1 == mpi_mul(m, Bn.p, d, i, u0)
                     d2 == mpi_mul(n, N.p, d1, i, u1)
                 IN  loop(WrL(WrL(d2, i, u0), i + n + 2, 0), i + 1)
    IN  IF tlimbs < N.used + 1 THEN Err(EBUG, A)
        ELSE With(loop(Rep(tlimbs, 0), 0), LAMBDA d :
             With(mpi_fixup_used(
                      [A EXCEPT !.p = [k \in 1..Max(A.limbs, n + 1) |->
                                         IF k <= n + 1 THEN RdL(d, n + k - 1)
                                         ELSE A.p[k]]],
                      n + 1), LAMBDA A1 :
             IF ttls_mpi_cmp_abs(A1, N) >= 0
             THEN With(mpi_sub(A1, N, A1.p), LAMBDA sb :
                  IF sb.bug THEN Err(EBUG, A1)
                  ELSE Ok(mpi_fixup_used([A1 EXCEPT !.p = sb.r], A1.used)))
             ELSE Ok(A1)))

\* __mpi_montred(A, N, mm, T)
mpi_montred(A, N, mm, tlimbs) ==
    mpi_montmul(A, [s |-> 1, used |-> 1, limbs |-> 1, p |-> <<1>>], N, mm, tlimbs)

\* an element of the per-cpu array W after memset(W, 0, ...)
MpiZeroed == [s |-> 0, used |-> 0, limbs |-> 0, p |-> <<>>]

\* the window size ttls_mpi_exp_mod() takes for an exponent of i bits
exp_wsize(i) ==
    IF i > 671 THEN 6
    ELSE IF i > 239 THEN 5
    ELSE IF i > 79 THEN 4
    ELSE IF i > 23 THEN 3
    ELSE 1

\* st through a chain of montmul calls: [r, X]
MontSeq(st, Bn, N, mm, tlimbs) ==
    IF st.r # SUCCESS THEN st ELSE mpi_montmul(st.X, Bn, N, mm, tlimbs)

\* X = X * X * R^-1 mod N made cnt times
RECURSIVE MontSquare(_, _, _, _, _)
MontSquare(st, cnt, N, mm, tlimbs) ==
    IF cnt = 0 THEN st
    ELSE MontSquare(MontSeq(st, st.X, N, mm, tlimbs), cnt - 1, N, mm, tlimbs)

\* the table W[1 << (wsize - 1)] .. W[(1 << wsize) - 1] from W[1]: a function
\* on the indices with an entry [r, X] each
exp_table(W1, wsize, N, mm, tlimbs) ==
    LET j == Pow2(wsize - 1)
        slot(src) ==
            With(ttls_mpi_grow(MpiZeroed, N.used + 1), LAMBDA g :
            IF g.r # SUCCESS THEN g ELSE ttls_mpi_copy(g.X, src))
        RECURSIVE fill(_, _)
        fill(tab, i) ==
            IF i >= Pow2(wsize) THEN tab
            ELSE LET prev == tab[i - 1]
                     e == IF prev.r # SUCCESS THEN prev
                          ELSE MontSeq(slot(prev.X), W1, N, mm, tlimbs)
                 IN  fill(tab @@ (i :> e), i + 1)
    IN  IF wsize = 1 THEN (1 :> Ok(W1))
        ELSE fill((1 :> Ok(W1)) @@
                  (j :> MontSquare(slot(W1), wsize - 1, N, mm, tlimbs)), j + 1)

\* one round of the bit loop of ttls_mpi_exp_mod() for the bit at position
\* pos of E; st is [r, X, state, nbits, wbits]
exp_bit(st, pos, E, W, wsize, N, mm, tlimbs) ==
    LET ei == LBit(P(E, pos \div BIL), pos % BIL)
        nbits == st.nbits + 1
        wbits == st.wbits + ei * Pow2(wsize - nbits)
    IN  IF st.r # SUCCESS THEN st
        ELSE IF ei = 0 /\ st.state = 0 THEN st
        ELSE IF ei = 0 /\ st.state = 1
        THEN With(MontSeq([r |-> st.r, X |-> st.X], st.X, N, mm, tlimbs), LAMBDA one :
             [st EXCEPT !.r = one.r, !.X = one.X])
        ELSE IF nbits = wsize
        THEN With(IF W[wbits].r # SUCCESS THEN W[wbits]
                  ELSE MontSeq(MontSquare([r |-> st.r, X |-> st.X], wsize, N, mm,
                                          tlimbs),
                               W[wbits].X, N, mm, tlimbs), LAMBDA ml :
             [r |-> ml.r, X |-> ml.X, state |-> 1, nbits |-> 0, wbits |-> 0])
        ELSE [st EXCEPT !.state = 2, !.nbits = nbits, !.wbits = wbits]

\* the bit loop from the bit hi - 1 down to the bit lo
RECURSIVE exp_bits(_, _, _, _, _, _, _, _, _)
exp_bits(st, lo, hi, E, W, wsize, N, mm, tlimbs) ==
    IF st.r # SUCCESS \/ hi <= lo THEN st
    ELSE IF hi = lo + 1 THEN exp_bit(st, lo, E, W, wsize, N, mm, tlimbs)
    ELSE With(exp_bits(st, (lo + hi) \div 2, hi, E, W, wsize, N, mm, tlimbs),
              LAMBDA up :
         IF up.r # SUCCESS THEN up
         ELSE exp_bits(up, lo, (lo + hi) \div 2, E, W, wsize, N, mm, tlimbs))

\* the loop over the bits that are left in the window
RECURSIVE exp_rest(_, _, _, _, _, _, _)
exp_rest(st, i, W1, wsize, N, mm, tlimbs) ==
    IF st.r # SUCCESS \/ i = st.nbits THEN st
    ELSE With(MontSeq([r |-> st.r, X |-> st.X], st.X, N, mm, tlimbs), LAMBDA sq :
         With(IF ((st.wbits * 2) \div Pow2(wsize)) % 2 = 1
              THEN MontSeq(sq, W1, N, mm, tlimbs) ELSE sq, LAMBDA ml :
         exp_rest([st EXCEPT !.r = ml.r, !.X = ml.X, !.wbits = st.wbits * 2],
                  i + 1, W1, wsize, N, mm, tlimbs)))

\* what ttls_mpi_exp_mod() leaves: its status, the destination and RR
ExpOut(r, X1, RR1) == [r |-> r, X |-> X1, RR |-> RR1]

ExpOutOf(g, RR1) == ExpOut(g.r, g.X, RR1)

\* the constant 1 that __mpi_montred() multiplies by
MontOne == [s |-> 1, used |-> 1, limbs |-> 1, p |-> <<1>>]

\* [r, X] of a result that carries more
StatusX(g) == [r |-> g.r, X |-> g.X]

\* The steps of ttls_mpi_exp_mod(), the last one first.  X is the destination
\* as it stands, RR the R^2 mod N, tl the capacity of T, mm the Montgomery
\* constant.
\* X = A^E * R * R^-1 mod N from x1; the sign for a negative A and an odd E
exp_mod_sign(x1, A, E, N, RR) ==
    IF x1.r # SUCCESS THEN ExpOut(x1.r, x1.X, RR)
    ELSE IF A.s = 0 - 1 /\ E.used # 0 /\ P(E, 0) % 2 = 1
    THEN ExpOutOf(ttls_mpi_add_mpi([x1.X EXCEPT !.s = 0 - 1], N,
                                   [x1.X EXCEPT !.s = 0 - 1], "B"), RR)
    ELSE ExpOut(SUCCESS, x1.X, RR)

\* s1 is what the bit loop and the loop over the remaining bits left
exp_mod_red(s1, A, E, N, RR, mm, tl) ==
    IF s1.r # SUCCESS THEN ExpOut(s1.r, s1.X, RR)
    ELSE exp_mod_sign(MontSeq([r |-> s1.r, X |-> s1.X], MontOne, N, mm, tl),
                      A, E, N, RR)

\* W is the table of the window, wbad its entries that could not be made
exp_mod_bits(W, wbad, x0, w1, wsize, A, E, N, RR, mm, tl) ==
    IF wsize > 1 /\ wbad # {}
    THEN ExpOut(W[CHOOSE i \in wbad : \A k \in wbad : i <= k].r, x0.X, RR)
    ELSE exp_mod_red(
             exp_rest(exp_bits([r |-> SUCCESS, X |-> x0.X, state |-> 0,
                                nbits |-> 0, wbits |-> 0],
                               0, E.used * BIL, E, W, wsize, N, mm, tl),
                      0, w1.X, wsize, N, mm, tl),
             A, E, N, RR, mm, tl)

exp_mod_window(W, x0, w1, wsize, A, E, N, RR, mm, tl) ==
    exp_mod_bits(W, {i \in DOMAIN W : W[i].r # SUCCESS}, x0, w1, wsize,
                 A, E, N, RR, mm, tl)

\* x0 is X = R mod N
exp_mod_table(x0, w1, wsize, A, E, N, RR, mm, tl) ==
    IF x0.r # SUCCESS THEN ExpOut(x0.r, x0.X, RR)
    ELSE exp_mod_window(exp_table(w1.X, wsize, N, mm, tl), x0, w1, wsize,
                        A, E, N, RR, mm, tl)

\* w1 is W[1] = A * R mod N
exp_mod_x0(w1, X, A, E, N, RR, mm, tl) ==
    IF w1.r # SUCCESS THEN ExpOut(w1.r, X, RR)
    ELSE exp_mod_table(MontSeq(ttls_mpi_copy(X, RR), MontOne, N, mm, tl), w1,
                       exp_wsize(ttls_mpi_bitlen(E)), A, E, N, RR, mm, tl)

\* w0 is W[1] = A mod N
exp_mod_w1(w0, X, A, E, N, RR, mm, tl) ==
    IF w0.r # SUCCESS THEN ExpOut(w0.r, X, RR)
    ELSE exp_mod_x0(MontSeq(w0, RR, N, mm, tl), X, A, E, N, RR, mm, tl)

\* gR is R^2 mod N, W1 the W[1] that was allocated, Apos the base made positive
exp_mod_w0(gR, W1, Apos, X, A, E, N, mm, tl) ==
    IF gR.r # SUCCESS THEN ExpOut(gR.r, X, gR.X)
    ELSE exp_mod_w1(IF ttls_mpi_cmp_mpi(Apos, N) >= 0
                    THEN StatusX(ttls_mpi_mod_mpi(W1, Apos, N))
                    ELSE ttls_mpi_copy(W1, Apos),
                    X, A, E, N, gR.X, mm, tl)

\* R^2 mod N on the first call: RR = 1 << (N.used * 2 * BIL), RR %= N
exp_mod_rr_mod(r2, N) == StatusX(ttls_mpi_mod_mpi(r2.X, r2.X, N))

exp_mod_rr_set(r1, N) ==
    IF r1.r # SUCCESS THEN r1
    ELSE exp_mod_rr_mod(ttls_mpi_shift_l(r1.X, N.used * 2 * BIL), N)

exp_mod_rr(RR, N) ==
    IF RR.limbs # 0 THEN Ok(RR) ELSE exp_mod_rr_set(ttls_mpi_lset(RR, 1), N)

\* gX, gW and gT are X, W[1] and T as they were allocated, cA the copy of A
exp_mod_alloc(gX, gW, gT, cA, X, A, E, N, RR) ==
    IF gX.r # SUCCESS THEN ExpOut(ENOMEM, X, RR)
    ELSE IF gW.r # SUCCESS \/ gT.r # SUCCESS THEN ExpOut(ENOMEM, gX.X, RR)
    ELSE IF A.s = 0 - 1 /\ cA.r # SUCCESS THEN ExpOut(cA.r, gX.X, RR)
    ELSE exp_mod_w0(exp_mod_rr(RR, N), gW.X,
                    IF A.s = 0 - 1 THEN [cA.X EXCEPT !.s = 1] ELSE A,
                    gX.X, A, E, N, mpi_montg_init(N), gT.X.limbs)

\* ttls_mpi_exp_mod(X, A, E, N, RR): [r, X, RR]
ttls_mpi_exp_mod(X, A, E, N, RR) ==
    IF ttls_mpi_cmp_int(N, 0) <= 0 \/ P(N, 0) % 2 = 0 THEN ExpOut(EINVAL, X, RR)
    ELSE IF ttls_mpi_cmp_int(E, 0) < 0 THEN ExpOut(EINVAL, X, RR)
    ELSE exp_mod_alloc(ttls_mpi_grow(X, N.used + 1),
                       mpi_realloc(MpiZeroed, N.used + 1, FALSE, FALSE),
                       mpi_realloc(MpiInit, (N.used + 1) * 2, FALSE, FALSE),
                       ttls_mpi_copy(MpiInit, A), X, A, E, N, RR)

\* A^E mod n by repeated modular multiplication over the bits hi - 1 .. lo of
\* the exponent E, from the accumulator acc
RECURSIVE NaiveBits(_, _, _, _, _, _)
NaiveBits(acc, lo, hi, a, E, n) ==
    IF acc >= n \/ hi <= lo THEN acc
    ELSE IF hi = lo + 1
    THEN LET sq == (acc * acc) % n
         IN  IF LBit(P(E, lo \div BIL), lo % BIL) = 1 THEN (sq * a) % n ELSE sq
    ELSE LET mid == (lo + hi) \div 2
             up == NaiveBits(acc, mid, hi, a, E, n)
         IN  IF up >= n THEN up ELSE NaiveBits(up, lo, mid, a, E, n)

\* a^E mod n for an integer a, 0 <= a, and the magnitude of the MPI E
NaiveExpMod(a, E, n) == NaiveBits(1 % n, 0, E.used * BIL, a % n, E, n)

(***************************************************************************)
(* The modular exponentiation alone: ttls_mpi_exp_mod() is called on       *)
(* operands of every shape, and called again with the RR and the           *)
(* destination the first call left.                                        *)
(***************************************************************************)

\* the handshake while the MPI engine alone is looked at
NoHandshake ==
    /\ conf = KxCfg(FALSE)
    /\ hello = CHOOSE h \in KxHellos : TRUE
    /\ tls = InitTls
    /\ inmsg = [type |-> "none", body |-> <<>>, pos |-> 0, seq |-> 0,
                one_byte |-> TRUE]
    /\ inp = NoInput
    /\ closed = FALSE

\* what kmalloc() can hand out: zeroed pages, or what an earlier owner left
HeapFills == {0, LimbMax}

\* an exponent of k limbs, its most significant bit set
BigE(k) ==
    [s |-> 1, used |-> k, limbs |-> k,
     p |-> [i \in 1..k |-> IF i = k THEN LimbBase \div 2 + 1
                           ELSE IF i % 3 = 0 THEN 3
                           ELSE IF i % 3 = 1 THEN 5 ELSE LimbMax - 3]]

\* the moduli: odd ones of one, two and three limbs, and the refused ones
ExpN ==
    {MkMpi(1, v, 0, 0) : v \in {3, 17, 221, 255, 273, 0, 16}}
    \cup {MkMpi(0 - 1, 15, 0, 0)}

\* the bases: of fewer, as many and more limbs than the moduli, multiples
\* of them, and negative ones
ExpA ==
    {MkMpi(1, v, 0, 0) : v \in {0, 1, 2, 100, 221, 254, 4096}}
    \cup {MkMpi(0 - 1, v, 0, 0) : v \in {2, 100, 221, 255, 442}}

\* the exponents of a window of one bit, and a negative one
ExpE ==
    {MkMpi(1, v, 0, 0) : v \in {0, 1, 2, 5, 255}} \cup {MkMpi(0 - 1, 1, 0, 0)}

\* the exponents of the windows of 3, 4, 5 and 6 bits
ExpEWide == {BigE(6), BigE(20), BigE(60), BigE(168)}

\* the destinations: a fresh MPI, and one that held a longer value
ExpX == {MpiInit, MkMpi(1, LimbBase * LimbBase * LimbBase - 1, 0, 0)}

InitExp ==
    /\ NoHandshake
    /\ \E h \in HeapFills, X \in ExpX :
         \/ \E A \in ExpA, E \in ExpE, N \in ExpN :
              mpi = [op |-> "init", heap |-> h, X |-> X, A |-> A, E |-> E,
                     N |-> N, RR |-> MpiInit, r |-> SUCCESS, calls |-> 0,
                     X0 |-> X]
         \/ \E A \in {MkMpi(1, 2, 0, 0), MkMpi(1, 254, 0, 0),
                      MkMpi(0 - 1, 100, 0, 0)},
               E \in ExpEWide,
               N \in {MkMpi(1, 17, 0, 0), MkMpi(1, 221, 0, 0)} :
              mpi = [op |-> "init", heap |-> h, X |-> X, A |-> A, E |-> E,
                     N |-> N, RR |-> MpiInit, r |-> SUCCESS, calls |-> 0,
                     X0 |-> X]

\* the number of calls a run makes
MaxCalls == 2

\* r = ttls_mpi_exp_mod(&X, &A, &E, &N, &RR)
ExpMod ==
    /\ mpi.calls < MaxCalls
    /\ mpi' = With(ttls_mpi_exp_mod(mpi.X, mpi.A, mpi.E, mpi.N, mpi.RR), LAMBDA g :
                   [mpi EXCEPT !.op = "exp_mod", !.X = g.X, !.RR = g.RR,
                               !.r = g.r, !.calls = @ + 1])
    /\ UNCHANGED <<conf, tls, hello, inmsg, inp, closed>>

NextExp == ExpMod

SpecExp == InitExp /\ [][NextExp]_vars

\* the operands the contract of ttls_mpi_exp_mod() admits
ExpValid == /\ mpi.N.s = 1 /\ MpiAbs(mpi.N) > 1 /\ MpiAbs(mpi.N) % 2 = 1
            /\ mpi.E.s = 1

\* the result is the residue in [0, N) that repeated multiplication gives
ExpResultIs(v) ==
    /\ mpi.r = SUCCESS
    /\ MpiAbs(mpi.X) = v
    /\ mpi.X.s = 1 \/ v = 0

\* C24: for odd N > 1, A >= 0 and E >= 0 ttls_mpi_exp_mod() returns 0 with
\* X = A^E mod N, on the first call and on the calls that reuse RR, for every
\* window size; for N <= 0, an even N or E < 0 it returns -EINVAL.
C24_ExpMod ==
    mpi.op = "exp_mod" =>
        IF ExpValid
        THEN mpi.A.s = 1 =>
                ExpResultIs(NaiveExpMod(MpiAbs(mpi.A), mpi.E, MpiAbs(mpi.N)))
        ELSE mpi.r = EINVAL

\* C24 where it holds: when the memory that kmalloc() hands out is zeroed and
\* the destination holds no limbs of an earlier value behind those of RR (it
\* is fresh, or RR has as many limbs as N)
C24_ExpModCleanMemory ==
    (/\ mpi.op = "exp_mod"
     /\ mpi.heap = 0
     /\ mpi.X0 = MpiInit
     /\ mpi.calls = 1 \/ mpi.RR.used = mpi.N.used) =>
        IF ExpValid
        THEN mpi.A.s = 1 =>
                ExpResultIs(NaiveExpMod(MpiAbs(mpi.A), mpi.E, MpiAbs(mpi.N)))
        ELSE mpi.r = EINVAL

\* the canonical residue of (-a)^E modulo n for the magnitudes a and n
NaiveNegExpMod(a, E, n) ==
    LET v == NaiveExpMod(a, E, n)
    IN  IF E.used # 0 /\ P(E, 0) % 2 = 1 THEN (n - v) % n ELSE v

\* C25: for a negative A, an odd N > 1 and E >= 0 ttls_mpi_exp_mod() leaves
\* the canonical residue of A^E modulo N, X in [0, N), also when A is a
\* multiple of N.
C25_NegativeBase ==
    (mpi.op = "exp_mod" /\ ExpValid /\ mpi.A.s = 0 - 1) =>
        ExpResultIs(NaiveNegExpMod(MpiAbs(mpi.A), mpi.E, MpiAbs(mpi.N)))

\* C25 where it holds: in clean memory, when A^E is not a multiple of N or
\* E is even
C25_NegativeBaseNoMultiple ==
    (/\ mpi.op = "exp_mod" /\ ExpValid /\ mpi.A.s = 0 - 1
     /\ mpi.heap = 0
     /\ mpi.X0 = MpiInit
     /\ mpi.calls = 1 \/ mpi.RR.used = mpi.N.used
     /\ \/ NaiveExpMod(MpiAbs(mpi.A), mpi.E, MpiAbs(mpi.N)) # 0
        \/ P(mpi.E, 0) % 2 = 0) =>
        ExpResultIs(NaiveNegExpMod(MpiAbs(mpi.A), mpi.E, MpiAbs(mpi.N)))

(***************************************************************************)
(* The signed arithmetic alone: one operation on a pair of operands, and   *)
(* the inverse operation on its result.                                    *)
(***************************************************************************)

\* the magnitudes of the operands: of one, two and three limbs, with and
\* without carries between the limbs
ArithVals == {0, 1, 2, 15, 16, 19, 240, 255, 256, 3840, 4095}

\* the canonical MPIs of these magnitudes; zero has the sign +1
ArithOps ==
    {MkMpi(1, v, 0, 0) : v \in ArithVals}
    \cup {MkMpi(0 - 1, v, 0, 0) : v \in ArithVals \ {0}}

\* the destinations: a fresh MPI, and one that holds an earlier value
ArithDst == {MpiInit, MkMpi(0 - 1, LimbBase * LimbBase - 1, 1, LimbMax)}

\* which operand the destination is
Aliases == {"none", "A", "B"}

InitArith ==
    /\ NoHandshake
    /\ \E h \in HeapFills, A \in ArithOps, Bn \in ArithOps, X \in ArithDst :
         mpi = [op |-> "init", heap |-> h, A |-> A, B |-> Bn, X |-> X,
                Y |-> X, r |-> SUCCESS, al |-> "none", loops |-> 0]

\* the destination of a call: X itself, or the operand it is
Dst(al) == IF al = "A" THEN mpi.A ELSE IF al = "B" THEN mpi.B ELSE mpi.X

OnlyMpi == UNCHANGED <<conf, tls, hello, inmsg, inp, closed>>

\* r = ttls_mpi_add_mpi(X, A, B), X being a third MPI, A or B
AddMpi ==
    /\ mpi.op = "init"
    /\ \E al \in Aliases :
         LET g == ttls_mpi_add_mpi(Dst(al), mpi.A, mpi.B, al)
         IN  mpi' = [mpi EXCEPT !.op = "add_mpi", !.X = g.X, !.r = g.r, !.al = al]
    /\ OnlyMpi

\* r = ttls_mpi_sub_mpi(X, A, B), X being a third MPI, A or B
SubMpi ==
    /\ mpi.op = "init"
    /\ \E al \in Aliases :
         LET g == ttls_mpi_sub_mpi(Dst(al), mpi.A, mpi.B, al)
         IN  mpi' = [mpi EXCEPT !.op = "sub_mpi", !.X = g.X, !.r = g.r, !.al = al]
    /\ OnlyMpi

\* after X = A + B: r = ttls_mpi_sub_mpi(Y, X, B), Y being a third MPI or X
SubBack ==
    /\ mpi.op = "add_mpi"
    /\ mpi.r = SUCCESS
    /\ mpi.al # "B"
    /\ \E al \in {"none", "A"} :
         LET g == ttls_mpi_sub_mpi(IF al = "A" THEN mpi.X ELSE mpi.Y,
                                   mpi.X, mpi.B, al)
         IN  mpi' = [mpi EXCEPT !.op = "add_sub", !.Y = g.X, !.r = g.r]
    /\ OnlyMpi

\* r = ttls_mpi_mul_mpi(X, A, B)
MulMpi ==
    /\ mpi.op = "init"
    /\ LET g == ttls_mpi_mul_mpi(mpi.X, mpi.A, mpi.B)
       IN  mpi' = [mpi EXCEPT !.op = "mul_mpi", !.X = g.X, !.r = g.r]
    /\ OnlyMpi

\* r = ttls_mpi_div_mpi(Q, R, A, B): Q is left in X and R in Y
DivMpi ==
    /\ mpi.op = "init"
    /\ LET g == ttls_mpi_div_mpi(mpi.X, mpi.Y, mpi.A, mpi.B, TRUE, TRUE)
       IN  mpi' = [mpi EXCEPT !.op = "div_mpi", !.X = g.Q, !.Y = g.R,
                              !.r = g.r, !.loops = g.loops]
    /\ OnlyMpi

\* after X = A * B: r = ttls_mpi_div_mpi(Q, R, X, B), Q left in X, R in Y
DivBack ==
    /\ mpi.op = "mul_mpi"
    /\ mpi.r = SUCCESS
    /\ LET g == ttls_mpi_div_mpi(MpiInit, mpi.Y, mpi.X, mpi.B, TRUE, TRUE)
       IN  mpi' = [mpi EXCEPT !.op = "mul_div", !.X = g.Q, !.Y = g.R,
                              !.r = g.r, !.loops = g.loops]
    /\ OnlyMpi

\* r = ttls_mpi_mod_mpi(R, A, B): R is left in X, being a third MPI or A
ModMpi ==
    /\ mpi.op = "init"
    /\ \E al \in {"none", "A"} :
         LET g == ttls_mpi_mod_mpi(Dst(al), mpi.A, mpi.B)
         IN  mpi' = [mpi EXCEPT !.op = "mod_mpi", !.X = g.X, !.r = g.r,
                                !.al = al, !.loops = g.fixes]
    /\ OnlyMpi

NextArith ==
    AddMpi \/ SubMpi \/ SubBack \/ MulMpi \/ DivMpi \/ DivBack \/ ModMpi

SpecArith == InitArith /\ [][NextArith]_vars

\* X stands for the integer v, a zero with the sign +1
IsValue(X, v) ==
    /\ MpiVal(X) = v
    /\ v = 0 => X.s = 1

\* C28: add_mpi and sub_mpi return the exact signed sum and difference, the
\* sign being + when the magnitudes cancel, also when the destination is A or
\* B; and (A + B) - B is A in value and sign.
C28_AddSub ==
    /\ mpi.op = "add_mpi" =>
          mpi.r = SUCCESS /\ IsValue(mpi.X, MpiVal(mpi.A) + MpiVal(mpi.B))
    /\ mpi.op = "sub_mpi" =>
          mpi.r = SUCCESS /\ IsValue(mpi.X, MpiVal(mpi.A) - MpiVal(mpi.B))
    /\ mpi.op = "add_sub" =>
          mpi.r = SUCCESS /\ MpiVal(mpi.Y) = MpiVal(mpi.A) /\ mpi.Y.s = mpi.A.s

\* C28 where it holds: the values, and the signs of the results that are
\* not zero
C28_AddSubValue ==
    /\ mpi.op = "add_mpi" =>
          mpi.r = SUCCESS /\ MpiVal(mpi.X) = MpiVal(mpi.A) + MpiVal(mpi.B)
    /\ mpi.op = "sub_mpi" =>
          mpi.r = SUCCESS /\ MpiVal(mpi.X) = MpiVal(mpi.A) - MpiVal(mpi.B)
    /\ mpi.op = "add_sub" =>
          mpi.r = SUCCESS /\ MpiVal(mpi.Y) = MpiVal(mpi.A)

\* the sign of R is that of A unless R is zero
RemainderSign(R, A) == MpiAbs(R) = 0 \/ R.s = A.s

\* a correction loop of the division ended by its own condition
LoopsEnded == mpi.loops < LimbBase

\* C29: for B # 0 ttls_mpi_div_mpi() returns Q and R with A = Q * B + R,
\* |R| < |B| and R zero or of the sign of A, so that (A * B) / B is A with
\* R = 0, and its correction loops end; for B = 0 it returns -EINVAL.
C29_Division ==
    /\ mpi.op = "div_mpi" =>
          IF MpiAbs(mpi.B) = 0 THEN mpi.r = EINVAL
          ELSE /\ mpi.r = SUCCESS
               /\ MpiVal(mpi.A) = MpiVal(mpi.X) * MpiVal(mpi.B) + MpiVal(mpi.Y)
               /\ MpiAbs(mpi.Y) < MpiAbs(mpi.B)
               /\ RemainderSign(mpi.Y, mpi.A)
               /\ LoopsEnded
    /\ mpi.op = "mul_div" =>
          IF MpiAbs(mpi.B) = 0 THEN mpi.r = EINVAL
          ELSE /\ mpi.r = SUCCESS
               /\ MpiVal(mpi.X) = MpiVal(mpi.A)
               /\ MpiAbs(mpi.Y) = 0
               /\ LoopsEnded

\* a long division (more than one quotient digit, a correction loop that ran
\* more than once) of a negative A by a negative B with a remainder
C29_Witness ==
    /\ mpi.op = "div_mpi"
    /\ mpi.r = SUCCESS
    /\ mpi.A.s = 0 - 1 /\ mpi.B.s = 0 - 1
    /\ MpiAbs(mpi.B) > LimbBase
    /\ MpiAbs(mpi.X) > LimbMax
    /\ MpiAbs(mpi.Y) # 0
    /\ mpi.loops > 1

\* C30: for B > 0 ttls_mpi_mod_mpi() returns R with 0 <= R < B and
\* R = A mod B after at most two corrective additions or subtractions; for
\* B < 0 and for B = 0 it returns -EINVAL.
C30_Modulo ==
    mpi.op = "mod_mpi" =>
        IF MpiVal(mpi.B) <= 0 THEN mpi.r = EINVAL
        ELSE /\ mpi.r = SUCCESS
             /\ mpi.X.s = 1 \/ MpiAbs(mpi.X) = 0
             /\ MpiAbs(mpi.X) < MpiAbs(mpi.B)
             /\ MpiAbs(mpi.X) = MpiVal(mpi.A) % MpiVal(mpi.B)
             /\ mpi.loops <= 2

\* a negative A that is a multiple of B: the remainder of the division is a
\* zero of the sign -1, which takes one addition and one subtraction
C30_Witness ==
    /\ mpi.op = "mod_mpi"
    /\ mpi.r = SUCCESS
    /\ mpi.A.s = 0 - 1
    /\ MpiAbs(mpi.A) > MpiAbs(mpi.B)
    /\ MpiAbs(mpi.X) = 0
    /\ mpi.loops = 2

\* ---------------------------------------------------------------------
\* Sequences of the public operations on two MPIs X and Y.  mpi is
\* [op, heap, X, Y, r, n]: the last operation, the content of fresh memory,
\* the two MPIs, the status of the last operation and the number of
\* operations made.
\* ---------------------------------------------------------------------
MaxOps == 2
MaxArithLimbs == 8

\* canonical MPIs, some with spare limbs of old content behind used
MpiShapes ==
    {MkMpi(1, 0, 0, 0), MkMpi(1, 1, 0, 0), MkMpi(0 - 1, 19, 0, 0),
     MkMpi(1, 255, 1, LimbMax), MkMpi(0 - 1, 16, 0, 0)}
MpiOperands ==
    {MkMpi(1, 0, 0, 0), MkMpi(1, 3, 0, 0), MkMpi(0 - 1, 19, 0, 0),
     MkMpi(1, 256, 0, 0)}

\* buffers of bytes (of BIC bits): empty, short, with zeros at either end, and one
\* byte longer than TTLS_MPI_MAX_SIZE
ByteBufs ==
    {<<>>, <<0>>, <<2, 1>>, <<0, 0, 1>>, <<1, 0, 0>>, <<3, 0, 0, 0, 1>>,
     Rep(TTLS_MPI_MAX_SIZE, 3), Rep(TTLS_MPI_MAX_SIZE + 2, 1)}
BitPositions == {0, 3, 4, 9, TTLS_MPI_MAX_LIMBS * BIL - 1, TTLS_MPI_MAX_LIMBS * BIL}
ShiftCounts == {0, 1, 4, 7, 9, (TTLS_MPI_MAX_LIMBS - 1) * BIL, TTLS_MPI_MAX_LIMBS * BIL + 20}
SmallInts == {0 - 3, 0, 1, 7}
FlagBytes == {0, 1, 255}

InitMpi ==
    /\ NoHandshake
    /\ \E h \in HeapFills, X \in MpiShapes, Y \in MpiOperands :
         mpi = [op |-> "init", heap |-> h, X |-> X, Y |-> Y, r |-> SUCCESS, n |-> 0]

MayCall == mpi.n < MaxOps /\ mpi.r = SUCCESS

\* the operands of the arithmetic are kept short; the long ones go to the
\* calls that move limbs and to the multiplication that has no room
Short == mpi.X.used <= MaxArithLimbs /\ mpi.Y.used <= MaxArithLimbs

\* the state after the call op that left g = [r, X]
Called(op, g) == mpi' = [mpi EXCEPT !.op = op, !.X = g.X, !.r = g.r, !.n = @ + 1]

OpLset ==
    /\ MayCall
    /\ \E z \in SmallInts : Called("lset", ttls_mpi_lset(mpi.X, z))
    /\ OnlyMpi

OpCopy ==
    /\ MayCall
    /\ Called("copy", ttls_mpi_copy(mpi.X, mpi.Y))
    /\ OnlyMpi

OpReadBinary ==
    /\ MayCall
    /\ \E buf \in ByteBufs : Called("read_binary", ttls_mpi_read_binary(mpi.X, buf))
    /\ OnlyMpi

OpFillRandom ==
    /\ MayCall
    /\ \E rnd \in ByteBufs \ {<<>>} : Called("fill_random", ttls_mpi_fill_random(mpi.X, rnd))
    /\ OnlyMpi

OpSetBit ==
    /\ MayCall
    /\ \E pos \in BitPositions, val \in {0, 1} :
         Called("set_bit", ttls_mpi_set_bit(mpi.X, pos, val))
    /\ OnlyMpi

OpShiftL ==
    /\ MayCall
    /\ \E count \in ShiftCounts : Called("shift_l", ttls_mpi_shift_l(mpi.X, count))
    /\ OnlyMpi

OpShiftR ==
    /\ MayCall
    /\ \E count \in ShiftCounts : Called("shift_r", ttls_mpi_shift_r(mpi.X, count))
    /\ OnlyMpi

\* X = |X| + |Y|
OpAddAbs ==
    /\ MayCall
    /\ Short
    /\ Called("add_abs", ttls_mpi_add_abs(mpi.X, mpi.X, mpi.Y, "A"))
    /\ OnlyMpi

\* X = |X| - |Y|
OpSubAbs ==
    /\ MayCall
    /\ Short
    /\ Called("sub_abs", ttls_mpi_sub_abs(mpi.X, mpi.X, mpi.Y))
    /\ OnlyMpi

\* X = X + Y, X = X + b
OpAdd ==
    /\ MayCall
    /\ Short
    /\ \/ Called("add_mpi", ttls_mpi_add_mpi(mpi.X, mpi.X, mpi.Y, "A"))
       \/ \E b \in SmallInts : Called("add_int", ttls_mpi_add_int(mpi.X, mpi.X, b, "A"))
    /\ OnlyMpi

\* X = X - Y, X = X - b
OpSub ==
    /\ MayCall
    /\ Short
    /\ \/ Called("sub_mpi", ttls_mpi_sub_mpi(mpi.X, mpi.X, mpi.Y, "A"))
       \/ \E b \in SmallInts : Called("sub_int", ttls_mpi_sub_int(mpi.X, mpi.X, b, "A"))
    /\ OnlyMpi

\* X = X * Y, X = X * X, X = X * b
OpMul ==
    /\ MayCall
    /\ Short \/ mpi.X.used + 1 > TTLS_MPI_MAX_LIMBS
    /\ \/ Called("mul_mpi", ttls_mpi_mul_mpi(mpi.X, mpi.X, mpi.Y))
       \/ Called("mul_mpi", ttls_mpi_mul_mpi(mpi.X, mpi.X, mpi.X))
       \/ \E b \in {0, 7} : Called("mul_uint", ttls_mpi_mul_uint(mpi.X, mpi.X, b))
    /\ OnlyMpi

\* ttls_mpi_div_mpi(&Q, &R, X, Y) into two initialised MPIs, which are the
\* X and Y of the calls that follow
OpDiv ==
    /\ MayCall
    /\ Short
    /\ LET g == ttls_mpi_div_mpi(MpiInit, MpiInit, mpi.X, mpi.Y, TRUE, TRUE)
       IN  mpi' = [mpi EXCEPT !.op = "div_mpi", !.r = g.r, !.n = @ + 1,
                              !.X = IF g.r = SUCCESS THEN g.Q ELSE mpi.X,
                              !.Y = IF g.r = SUCCESS THEN g.R ELSE mpi.Y]
    /\ OnlyMpi

\* X = X mod Y
OpMod ==
    /\ MayCall
    /\ Short
    /\ Called("mod_mpi", ttls_mpi_mod_mpi(mpi.X, mpi.X, mpi.Y))
    /\ OnlyMpi

OpCondAssign ==
    /\ MayCall
    /\ \E f \in FlagBytes :
         Called("safe_cond_assign", ttls_mpi_safe_cond_assign(mpi.X, mpi.Y, f))
    /\ OnlyMpi

OpCondSwap ==
    /\ MayCall
    /\ \E f \in FlagBytes :
         LET g == ttls_mpi_safe_cond_swap(mpi.X, mpi.Y, f)
         IN  mpi' = [mpi EXCEPT !.op = "safe_cond_swap", !.X = g.X, !.Y = g.Y,
                                !.r = g.r, !.n = @ + 1]
    /\ OnlyMpi

NextMpi ==
    \/ OpLset \/ OpCopy \/ OpReadBinary \/ OpFillRandom \/ OpSetBit
    \/ OpShiftL \/ OpShiftR \/ OpAddAbs \/ OpSubAbs \/ OpAdd \/ OpSub
    \/ OpMul \/ OpDiv \/ OpMod \/ OpCondAssign \/ OpCondSwap

SpecMpi == InitMpi /\ [][NextMpi]_vars

\* the value of X is zero: every limb below used is
MpiIsZero(X) == \A i \in 0..(X.used - 1) : P(X, i) = 0

\* the canonical form: a top limb that is not zero unless used = 1, and the
\* zero as one limb 0 of sign +1
Canonical(X) ==
    /\ X.used >= 1
    /\ X.used <= X.limbs
    /\ X.used > 1 => P(X, X.used - 1) # 0
    /\ MpiIsZero(X) => X.used = 1 /\ X.s = 1

\* a call was made on canonical MPIs and returned 0
FirstCallDone == mpi.n = 1 /\ mpi.r = SUCCESS

\* C26: every MPI a public operation produces from canonical operands is
\* canonical: used >= 1, limb[used - 1] # 0 whenever used > 1, and a zero
\* value has used = 1, limb[0] = 0 and sign +1.
C26_Canonical == FirstCallDone => Canonical(mpi.X) /\ Canonical(mpi.Y)

\* the operations that leave a canonical MPI whatever they are given of the
\* canonical operands
CanonicalOps == {"lset", "copy", "shift_l", "add_abs", "sub_abs", "mod_mpi",
                 "safe_cond_assign", "safe_cond_swap"}
C26_CanonicalKept ==
    FirstCallDone /\ mpi.op \in CanonicalOps => Canonical(mpi.X) /\ Canonical(mpi.Y)

\* C27: after any sequence of operations every MPI has at most
\* TTLS_MPI_MAX_LIMBS limbs: an operation that would need more returns an
\* error and allocates nothing.
C27_CapacityBounded ==
    /\ mpi.X.limbs <= TTLS_MPI_MAX_LIMBS
    /\ mpi.Y.limbs <= TTLS_MPI_MAX_LIMBS

\* the operations that grow through __mpi_realloc() keep the bound, and
\* refuse with -ENOMEM (-EINVAL for the size of fill_random) what is beyond it
OwnAllocation == {"shift_l", "read_binary"}
C27_ReallocBounded ==
    mpi.n = 1 /\ mpi.op \notin OwnAllocation =>
        /\ mpi.X.limbs <= TTLS_MPI_MAX_LIMBS
        /\ mpi.Y.limbs <= TTLS_MPI_MAX_LIMBS

(***************************************************************************)
(* The greatest common divisor and the modular inverse.  The loops of both *)
(* are followed for at most LoopCap rounds; a loop that has not ended by   *)
(* then leaves the status ELOOP, which no function of the engine returns.  *)
(***************************************************************************)
LoopCap == 64
ELOOP == "LOOP"

\* the first status of two that is not 0
Status2(r1, r2) == IF r1 # SUCCESS THEN r1 ELSE r2

\* One round of the while loop of ttls_mpi_gcd(), g being [r, TA, TB]: the
\* subtraction and the shift by one bit of the larger of TA and TB, which
\* sa and sb are after their shifts by their trailing zero bits
gcd_halve(d, other, isA) ==
    IF d.r # SUCCESS
    THEN [r |-> d.r, TA |-> IF isA THEN d.X ELSE other,
          TB |-> IF isA THEN other ELSE d.X]
    ELSE [r |-> ttls_mpi_shift_r(d.X, 1).r,
          TA |-> IF isA THEN ttls_mpi_shift_r(d.X, 1).X ELSE other,
          TB |-> IF isA THEN other ELSE ttls_mpi_shift_r(d.X, 1).X]

gcd_round(sa, sb) ==
    IF sa.r # SUCCESS \/ sb.r # SUCCESS
    THEN [r |-> Status2(sa.r, sb.r), TA |-> sa.X, TB |-> sb.X]
    ELSE IF ttls_mpi_cmp_mpi(sa.X, sb.X) >= 0
    THEN gcd_halve(ttls_mpi_sub_abs(sa.X, sa.X, sb.X), sb.X, TRUE)
    ELSE gcd_halve(ttls_mpi_sub_abs(sb.X, sb.X, sa.X), sa.X, FALSE)

\* while (ttls_mpi_cmp_int(&TA, 0)) { ... }
RECURSIVE gcd_loop(_, _)
gcd_loop(g, cnt) ==
    IF g.r # SUCCESS \/ ttls_mpi_cmp_int(g.TA, 0) = 0 THEN g
    ELSE IF cnt >= LoopCap THEN [g EXCEPT !.r = ELOOP]
    ELSE gcd_loop(gcd_round(ttls_mpi_shift_r(g.TA, ttls_mpi_lsb(g.TA)),
                            ttls_mpi_shift_r(g.TB, ttls_mpi_lsb(g.TB))),
                  cnt + 1)

\* TB <<= lz; G = TB
gcd_result(G, g, lz) ==
    IF g.r # SUCCESS THEN Err(g.r, G)
    ELSE With(ttls_mpi_shift_l(g.TB, lz), LAMBDA sh :
         IF sh.r # SUCCESS THEN Err(sh.r, G) ELSE ttls_mpi_copy(G, sh.X))

\* sa and sb are TA and TB after their shift by lz
gcd_shifted(G, sa, sb, lz) ==
    IF sa.r # SUCCESS \/ sb.r # SUCCESS THEN Err(Status2(sa.r, sb.r), G)
    ELSE gcd_result(G, gcd_loop([r |-> SUCCESS, TA |-> [sa.X EXCEPT !.s = 1],
                                 TB |-> [sb.X EXCEPT !.s = 1]], 0), lz)

gcd_copied(G, ca, cb, lz) ==
    IF ca.r # SUCCESS \/ cb.r # SUCCESS THEN Err(ENOMEM, G)
    ELSE gcd_shifted(G, ttls_mpi_shift_r(ca.X, lz), ttls_mpi_shift_r(cb.X, lz), lz)

\* ttls_mpi_gcd(G, A, Bn): [r, X] with the G it leaves
ttls_mpi_gcd(G, A, Bn) ==
    gcd_copied(G, ttls_mpi_copy(MpiInit, A), ttls_mpi_copy(MpiInit, Bn),
               Min(ttls_mpi_lsb(A), ttls_mpi_lsb(Bn)))

\* The loops of ttls_mpi_inv_mod() work on the triples (TU, U1, U2) and
\* (TV, V1, V2), here [r, T, W1, W2].
\* W1 >>= 1; W2 >>= 1 after the shift t of T and the adjustments a and b
inv_shifted(t, s1, s2) ==
    [r |-> Status2(s1.r, s2.r), T |-> t, W1 |-> s1.X, W2 |-> s2.X]

inv_adjusted(t, a, b) ==
    IF a.r # SUCCESS \/ b.r # SUCCESS
    THEN [r |-> Status2(a.r, b.r), T |-> t, W1 |-> a.X, W2 |-> b.X]
    ELSE inv_shifted(t, ttls_mpi_shift_r(a.X, 1), ttls_mpi_shift_r(b.X, 1))

\* The round without the adjustment of odd W1 and W2: T, W1 and W2 are
\* shifted, whatever their lowest bits.
inv_halve_plain(t, g, TA, TB) ==
    IF t.r # SUCCESS THEN [g EXCEPT !.r = t.r]
    ELSE inv_adjusted(t.X, Ok(g.W1), Ok(g.W2))

\* one round of while (!(T.p[0] & 1)): t is T after its shift
inv_halve(t, g, TA, TB) ==
    IF t.r # SUCCESS THEN [g EXCEPT !.r = t.r]
    ELSE IF P(g.W1, 0) % 2 = 1 \/ P(g.W2, 0) % 2 = 1
    THEN inv_adjusted(t.X, ttls_mpi_add_mpi(g.W1, g.W1, TB, "A"),
                      ttls_mpi_sub_mpi(g.W2, g.W2, TA, "A"))
    ELSE inv_adjusted(t.X, Ok(g.W1), Ok(g.W2))

RECURSIVE inv_even(_, _, _, _)
inv_even(g, TA, TB, cnt) ==
    IF g.r # SUCCESS \/ P(g.T, 0) % 2 = 1 THEN g
    ELSE IF cnt >= LoopCap THEN [g EXCEPT !.r = ELOOP]
    ELSE inv_even(inv_halve(ttls_mpi_shift_r(g.T, 1), g, TA, TB), TA, TB, cnt + 1)

\* T -= y.T; W1 -= y.W1; W2 -= y.W2 on the triple x, from its three results
inv_minus(d0, d1, d2) ==
    [r |-> Status2(d0.r, Status2(d1.r, d2.r)), T |-> d0.X, W1 |-> d1.X, W2 |-> d2.X]

inv_sub(x, y) ==
    inv_minus(ttls_mpi_sub_mpi(x.T, x.T, y.T, "A"),
              ttls_mpi_sub_mpi(x.W1, x.W1, y.W1, "A"),
              ttls_mpi_sub_mpi(x.W2, x.W2, y.W2, "A"))

\* d is the triple that was the larger one, after the subtraction
inv_taken(d, other, isU) ==
    [r |-> d.r, u |-> IF isU THEN d ELSE other, v |-> IF isU THEN other ELSE d]

\* the end of a round of the do-while: u and v are the triples after their
\* loops; [r, u, v]
inv_compare(u, v) ==
    IF u.r # SUCCESS \/ v.r # SUCCESS THEN [r |-> Status2(u.r, v.r), u |-> u, v |-> v]
    ELSE IF ttls_mpi_cmp_mpi(u.T, v.T) >= 0
    THEN inv_taken(inv_sub(u, v), v, TRUE)
    ELSE inv_taken(inv_sub(v, u), u, FALSE)

\* do { ... } while (ttls_mpi_cmp_int(&TU, 0))
RECURSIVE inv_loop(_, _, _, _)
inv_loop(st, TA, TB, cnt) ==
    IF cnt >= LoopCap THEN [st EXCEPT !.r = ELOOP]
    ELSE With(inv_compare(inv_even(st.u, TA, TB, 0), inv_even(st.v, TA, TB, 0)),
              LAMBDA s1 :
         IF s1.r # SUCCESS \/ ttls_mpi_cmp_int(s1.u.T, 0) = 0 THEN s1
         ELSE inv_loop(s1, TA, TB, cnt + 1))

\* while (V1 < 0) V1 += N;  while (V1 >= N) V1 -= N
RECURSIVE inv_up(_, _, _)
inv_up(g, N, cnt) ==
    IF g.r # SUCCESS \/ ttls_mpi_cmp_int(g.X, 0) >= 0 THEN g
    ELSE IF cnt >= LoopCap THEN Err(ELOOP, g.X)
    ELSE inv_up(ttls_mpi_add_mpi(g.X, g.X, N, "A"), N, cnt + 1)

RECURSIVE inv_down(_, _, _)
inv_down(g, N, cnt) ==
    IF g.r # SUCCESS \/ ttls_mpi_cmp_mpi(g.X, N) < 0 THEN g
    ELSE IF cnt >= LoopCap THEN Err(ELOOP, g.X)
    ELSE inv_down(ttls_mpi_sub_mpi(g.X, g.X, N, "A"), N, cnt + 1)

\* X = V1 once V1 is in [0, N)
inv_result(X, v1) ==
    IF v1.r # SUCCESS THEN Err(v1.r, X) ELSE ttls_mpi_copy(X, v1.X)

inv_reduce(X, st, N) ==
    IF st.r # SUCCESS THEN Err(st.r, X)
    ELSE inv_result(X, inv_down(inv_up(Ok(st.v.W1), N, 0), N, 0))

\* tu, tb and tv are the copies TU = TA, TB = N and TV = N; u1, u2, v1 and
\* v2 what ttls_mpi_lset() made of U1, U2, V1 and V2
inv_set(X, TA, tu, tb, tv, N, u1, u2, v1, v2) ==
    IF u1.r # SUCCESS \/ u2.r # SUCCESS \/ v1.r # SUCCESS \/ v2.r # SUCCESS
    THEN Err(Status2(u1.r, Status2(u2.r, Status2(v1.r, v2.r))), X)
    ELSE inv_reduce(X,
                    inv_loop([r |-> SUCCESS,
                              u |-> [r |-> SUCCESS, T |-> tu, W1 |-> u1.X, W2 |-> u2.X],
                              v |-> [r |-> SUCCESS, T |-> tv, W1 |-> v1.X, W2 |-> v2.X]],
                             TA, tb, 0),
                    N)

inv_copied(X, TA, tu, tb, tv, N) ==
    IF tu.r # SUCCESS \/ tb.r # SUCCESS \/ tv.r # SUCCESS
    THEN Err(Status2(tu.r, Status2(tb.r, tv.r)), X)
    ELSE inv_set(X, TA, tu.X, tb.X, tv.X, N,
                 ttls_mpi_lset(MpiInit, 1), ttls_mpi_lset(MpiInit, 0),
                 ttls_mpi_lset(MpiInit, 0), ttls_mpi_lset(MpiInit, 1))

\* ta is TA = A mod N
inv_mod_ta(X, ta, N) ==
    IF ta.r # SUCCESS THEN Err(ta.r, X)
    ELSE inv_copied(X, ta.X, ttls_mpi_copy(MpiInit, ta.X),
                    ttls_mpi_copy(MpiInit, N), ttls_mpi_copy(MpiInit, N), N)

\* G is what ttls_mpi_gcd(&G, A, N) left
inv_mod_gcd(X, G, A, N) ==
    IF G.r # SUCCESS THEN Err(G.r, X)
    ELSE IF ttls_mpi_cmp_int(G.X, 1) # 0 THEN Err(EINVAL, X)
    ELSE inv_mod_ta(X, StatusX(ttls_mpi_mod_mpi(MpiInit, A, N)), N)

\* ttls_mpi_inv_mod(X, A, N): [r, X]
ttls_mpi_inv_mod(X, A, N) ==
    IF ttls_mpi_cmp_int(N, 1) <= 0 THEN Err(EINVAL, X)
    ELSE inv_mod_gcd(X, ttls_mpi_gcd(MpiInit, A, N), A, N)

(***************************************************************************)
(* The modular inverse alone: ttls_mpi_inv_mod() is called once on a base  *)
(* and a modulus of every shape.                                           *)
(***************************************************************************)

\* the largest base and modulus of one limb pair that are all tried
InvMaxVal == 40

\* the bases: all small ones of both signs, and some of two and three limbs
InvA ==
    {MkMpi(1, v, 0, 0) : v \in 0..InvMaxVal}
    \cup {MkMpi(0 - 1, v, 0, 0) : v \in 1..InvMaxVal}
    \cup {MkMpi(s, v, 1, LimbMax) : s \in {1, 0 - 1}, v \in {255, 256, 257, 1001, 4095}}

\* the moduli: all small ones, some of two and three limbs, and negative ones
InvN ==
    {MkMpi(1, v, 0, 0) : v \in 0..InvMaxVal}
    \cup {MkMpi(1, v, 0, 0) : v \in {255, 256, 257, 1000, 4095}}
    \cup {MkMpi(0 - 1, v, 0, 0) : v \in {1, 7}}

InitInv ==
    /\ NoHandshake
    /\ \E h \in HeapFills, A \in InvA, N \in InvN :
         mpi = [op |-> "init", heap |-> h, A |-> A, N |-> N,
                X |-> MkMpi(0 - 1, 300, 0, 0), r |-> SUCCESS]

\* r = ttls_mpi_inv_mod(&X, &A, &N)
InvMod ==
    /\ mpi.op = "init"
    /\ mpi' = With(ttls_mpi_inv_mod(mpi.X, mpi.A, mpi.N), LAMBDA g :
                   [mpi EXCEPT !.op = "inv_mod", !.X = g.X, !.r = g.r])
    /\ OnlyMpi

NextInv == InvMod

SpecInv == InitInv /\ [][NextInv]_vars

\* the greatest common divisor of two naturals
RECURSIVE Gcd(_, _)
Gcd(a, b) == IF b = 0 THEN a ELSE Gcd(b, a % b)

\* C31: for every A and every N > 1 with gcd(A, N) = 1 ttls_mpi_inv_mod()
\* ends and returns 0 with X in [0, N) and (A * X) mod N = 1; for
\* gcd(A, N) # 1 or N <= 1 it returns -EINVAL and leaves X as it was
C31_InvMod ==
    mpi.op = "inv_mod" =>
        LET a == MpiVal(mpi.A)
            n == MpiVal(mpi.N)
        IN  IF n <= 1 \/ Gcd(MpiAbs(mpi.A), n) # 1
            THEN mpi.r = EINVAL /\ mpi.X = MkMpi(0 - 1, 300, 0, 0)
            ELSE /\ mpi.r = SUCCESS
                 /\ mpi.X.s = 1
                 /\ MpiAbs(mpi.X) < n
                 /\ ((a % n) * MpiAbs(mpi.X)) % n = 1

\* an inverse of a negative base of three limbs to a modulus of three limbs
C31_Witness ==
    /\ mpi.op = "inv_mod"
    /\ mpi.r = SUCCESS
    /\ mpi.A.s = 0 - 1
    /\ mpi.A.used = 3
    /\ mpi.N.used = 3
    /\ MpiAbs(mpi.X) > LimbBase

(***************************************************************************)
(* The operations of the engine one by one.  A run makes calls as in       *)
(* SpecMpi and ends with one observed call, made on what the calls before  *)
(* it left: the observed call keeps the operands it was given (X0, Y0),    *)
(* its arguments and what it returned, so that its result can be compared  *)
(* with the values of the operands.                                        *)
(***************************************************************************)

\* the most limbs of an operand whose value is worked out
MaxValLimbs == 6

\* an observed call can be made: at most one call was made before it
MayObserve ==
    /\ mpi.n <= 1
    /\ mpi.r = SUCCESS
    /\ mpi.X.used <= MaxValLimbs /\ mpi.X.limbs <= MaxValLimbs
    /\ mpi.Y.used <= MaxValLimbs /\ mpi.Y.limbs <= MaxValLimbs

\* the state after the observed call op: obs are the fields it adds
Observed(op, obs) ==
    mpi' = obs @@ [X0 |-> mpi.X, Y0 |-> mpi.Y] @@ [mpi EXCEPT !.op = op, !.n = MaxOps]

\* the third operands of the comparisons
CmpThird == {MkMpi(1, 0, 0, 0), MkMpi(1, 3, 0, 0), MkMpi(0 - 1, 3, 0, 0),
             MkMpi(0 - 1, 19, 0, 0), MkMpi(1, 256, 0, 0)}

\* ttls_mpi_cmp_abs() and ttls_mpi_cmp_mpi() on X, Y and a third MPI Z, in
\* every order that antisymmetry and transitivity take
OpCompare ==
    /\ MayObserve
    /\ \E Z \in CmpThird :
         Observed("cmp",
                  [Z |-> Z,
                   abs |-> [xy |-> ttls_mpi_cmp_abs(mpi.X, mpi.Y),
                            yx |-> ttls_mpi_cmp_abs(mpi.Y, mpi.X),
                            yz |-> ttls_mpi_cmp_abs(mpi.Y, Z),
                            xz |-> ttls_mpi_cmp_abs(mpi.X, Z)],
                   sgn |-> [xy |-> ttls_mpi_cmp_mpi(mpi.X, mpi.Y),
                            yx |-> ttls_mpi_cmp_mpi(mpi.Y, mpi.X),
                            yz |-> ttls_mpi_cmp_mpi(mpi.Y, Z),
                            xz |-> ttls_mpi_cmp_mpi(mpi.X, Z)]])
    /\ OnlyMpi

Sign(v) == IF v > 0 THEN 1 ELSE IF v < 0 THEN 0 - 1 ELSE 0

\* the results c of one comparison function on X, Y, Z are those of an order:
\* antisymmetric and transitive
IsOrder(c) ==
    /\ c.yx = 0 - c.xy
    /\ c.xy <= 0 /\ c.yz <= 0 => c.xz <= 0
    /\ c.xy >= 0 /\ c.yz >= 0 => c.xz >= 0

\* the comparisons give the order of the magnitudes and the order of the values
ComparedByValue ==
    /\ mpi.abs.xy = Sign(MpiAbs(mpi.X0) - MpiAbs(mpi.Y0))
    /\ mpi.sgn.xy = Sign(MpiVal(mpi.X0) - MpiVal(mpi.Y0))
    /\ IsOrder(mpi.abs)
    /\ IsOrder(mpi.sgn)
    /\ MpiAbs(mpi.X0) = 0 /\ MpiAbs(mpi.Y0) = 0 => mpi.abs.xy = 0 /\ mpi.sgn.xy = 0

\* C32: for all MPIs the engine produces ttls_mpi_cmp_abs() orders by
\* magnitude and ttls_mpi_cmp_mpi() returns the sign of X - Y, both are
\* antisymmetric and transitive, and two zero values compare equal whatever
\* their sign field and their used count
C32_Compare == mpi.op = "cmp" => ComparedByValue

\* C32 on canonical operands: there the comparisons are those of the values
C32_CompareCanonical ==
    mpi.op = "cmp" /\ Canonical(mpi.X0) /\ Canonical(mpi.Y0) => ComparedByValue
C32_CanonicalWitness ==
    /\ mpi.op = "cmp" /\ Canonical(mpi.X0) /\ Canonical(mpi.Y0)
    /\ mpi.X0.used = 2 /\ mpi.Y0.used = 2 /\ mpi.X0.s = 0 - 1 /\ mpi.Y0.s = 0 - 1
    /\ mpi.sgn.xy = 1 /\ mpi.abs.xy = 0 - 1 /\ mpi.Z.used = 3

\* the shift counts of the observed shifts: none, within a limb, whole limbs,
\* and both
ObsShiftCounts == {0, 1, 4, 5, 8, 9}

\* the most limbs of an MPI that is shifted left under observation
MaxShiftLimbs == 4

\* ttls_mpi_shift_l(X, count) on what the calls before left in X
ObsShiftL ==
    /\ MayObserve
    /\ mpi.X.used <= MaxShiftLimbs
    /\ \E count \in ObsShiftCounts :
         With(ttls_mpi_shift_l(mpi.X, count), LAMBDA g :
              Observed("obs_shift_l", [count |-> count, X |-> g.X, r |-> g.r]))
    /\ OnlyMpi

\* ttls_mpi_shift_r(X, count) on what the calls before left in X
ObsShiftR ==
    /\ MayObserve
    /\ \E count \in ObsShiftCounts :
         With(ttls_mpi_shift_r(mpi.X, count), LAMBDA g :
              Observed("obs_shift_r", [count |-> count, X |-> g.X, r |-> g.r]))
    /\ OnlyMpi

\* X = X_old * 2^count
ShiftedLeft == MpiVal(mpi.X) = MpiVal(mpi.X0) * Pow2(mpi.count)

\* |X| = floor(|X_old| / 2^count), the sign of a result that is not zero kept
ShiftedRight ==
    /\ MpiAbs(mpi.X) = MpiAbs(mpi.X0) \div Pow2(mpi.count)
    /\ MpiAbs(mpi.X) # 0 => mpi.X.s = mpi.X0.s

\* the limb behind the used ones, in the array of X or behind it, holds zero
CleanAbove(X) == P(X, X.used) = 0

\* C33: ttls_mpi_shift_l() leaves X = X_old * 2^count and ttls_mpi_shift_r()
\* leaves |X| = floor(|X_old| / 2^count) with the sign kept, whatever the
\* limbs at indices >= used hold, and ttls_mpi_shift_r() of a value below
\* 2^count leaves the canonical zero (used = 1, limb[0] = 0)
C33_Shift ==
    /\ mpi.op = "obs_shift_l" /\ mpi.r = SUCCESS => ShiftedLeft
    /\ mpi.op = "obs_shift_r" /\ mpi.r = SUCCESS =>
         /\ ShiftedRight
         /\ MpiAbs(mpi.X0) < Pow2(mpi.count) => mpi.X.used = 1 /\ P(mpi.X, 0) = 0

\* C33 for the left shift alone
C33_ShiftLeft == mpi.op = "obs_shift_l" /\ mpi.r = SUCCESS => ShiftedLeft

\* C33 where it holds: the left shift of a canonical MPI with a zero behind
\* its used limbs and the value of the right shift of a canonical MPI
C33_ShiftClean ==
    /\ mpi.op = "obs_shift_l" /\ mpi.r = SUCCESS /\ Canonical(mpi.X0)
       /\ CleanAbove(mpi.X0) => ShiftedLeft
    /\ mpi.op = "obs_shift_r" /\ mpi.r = SUCCESS /\ Canonical(mpi.X0) => ShiftedRight
C33_CleanWitness ==
    /\ mpi.op = "obs_shift_l" /\ mpi.r = SUCCESS /\ Canonical(mpi.X0)
    /\ CleanAbove(mpi.X0) /\ mpi.count = 9 /\ mpi.X0.s = 0 - 1 /\ mpi.X0.used = 2 /\ mpi.X.used = 5

\* the buffers handed to ttls_mpi_write_binary(), filled with bytes that are
\* not zero, and their lengths
ObsOutLens == {0, 1, 2, 3, 4, 6, 7}
ObsOutBufs == {Rep(n, Pow2(BIC) - 1) : n \in ObsOutLens}

\* the byte strings read by ttls_mpi_read_binary(): empty, with leading zero
\* bytes, of a whole number of limbs and not
ObsInBufs == {<<>>, <<0>>, <<2, 1>>, <<0, 0, 1>>, <<1, 0, 0>>, <<3, 0, 0, 0, 1>>,
              <<0, 0, 0, 0>>, <<1, 2, 3, 0, 1, 2>>}

\* ttls_mpi_write_binary(X, buf, buflen) and ttls_mpi_read_binary(Y, buf, buflen)
\* of the bytes written
ObsWriteRead ==
    /\ MayObserve
    /\ \E buf \in ObsOutBufs :
         With(ttls_mpi_write_binary(mpi.X, buf), LAMBDA w :
         With(ttls_mpi_read_binary(mpi.Y, w.buf), LAMBDA g :
              Observed("obs_write_read",
                       [buf0 |-> buf, buf |-> w.buf, r |-> w.r,
                        Y |-> IF w.r = SUCCESS THEN g.X ELSE mpi.Y,
                        rr |-> IF w.r = SUCCESS THEN g.r ELSE w.r])))
    /\ OnlyMpi

\* ttls_mpi_read_binary(X, buf, buflen) of a byte string
ObsRead ==
    /\ MayObserve
    /\ \E buf \in ObsInBufs :
         With(ttls_mpi_read_binary(mpi.X, buf), LAMBDA g :
              Observed("obs_read", [buf |-> buf, X |-> g.X, r |-> g.r]))
    /\ OnlyMpi

\* the number of bytes of the value v
RECURSIVE ByteLength(_)
ByteLength(v) == IF v = 0 THEN 0 ELSE 1 + ByteLength(v \div Pow2(BIC))

\* the writing and the reading back of X are those of its value
WrittenAndRead ==
    IF Len(mpi.buf0) < ByteLength(MpiAbs(mpi.X0))
    THEN mpi.r = ENOSPC /\ mpi.buf = mpi.buf0
    ELSE /\ mpi.r = SUCCESS /\ mpi.rr = SUCCESS
         /\ Len(mpi.buf) = Len(mpi.buf0)
         /\ BytesBE(mpi.buf, 1, Len(mpi.buf)) = MpiAbs(mpi.X0)
         /\ MpiVal(mpi.Y) = MpiVal(mpi.X0)

\* C34: for a non-negative X and outlen >= byte_length(X) the bytes written
\* are the big-endian value padded with zero bytes on the left to outlen
\* bytes and reading them gives X back; for outlen < byte_length(X)
\* ttls_mpi_write_binary() fails and leaves the buffer as it was; and
\* ttls_mpi_read_binary() of any byte string, the empty one included, gives
\* the non-negative value of the string
C34_Binary ==
    /\ mpi.op = "obs_write_read" /\ MpiVal(mpi.X0) >= 0 => WrittenAndRead
    /\ mpi.op = "obs_read" =>
         /\ mpi.r = SUCCESS
         /\ MpiVal(mpi.X) = BytesBE(mpi.buf, 1, Len(mpi.buf))

\* C34 for a canonical X
C34_BinaryCanonical ==
    /\ mpi.op = "obs_write_read" /\ MpiVal(mpi.X0) >= 0 /\ Canonical(mpi.X0)
         => WrittenAndRead
    /\ mpi.op = "obs_read" =>
         /\ mpi.r = SUCCESS
         /\ MpiVal(mpi.X) = BytesBE(mpi.buf, 1, Len(mpi.buf))
C34_CanonicalWitness ==
    /\ mpi.op = "obs_write_read" /\ Canonical(mpi.X0) /\ mpi.r = SUCCESS /\ mpi.X0.s = 1
    /\ mpi.X0.used = 2 /\ Len(mpi.buf) = 7 /\ mpi.Y0.used = 3 /\ mpi.Y.used = 2

\* ttls_mpi_safe_cond_assign(X, Y, assign) on what the calls before left
ObsCondAssign ==
    /\ MayObserve
    /\ \E f \in FlagBytes :
         With(ttls_mpi_safe_cond_assign(mpi.X, mpi.Y, f), LAMBDA g :
              Observed("obs_cond_assign", [flag |-> f, X |-> g.X, r |-> g.r]))
    /\ OnlyMpi

\* ttls_mpi_safe_cond_swap(X, Y, swap) called twice with the same flag; X1 and
\* Y1 are what the first call left
ObsCondSwap ==
    /\ MayObserve
    /\ \E f \in FlagBytes :
         With(ttls_mpi_safe_cond_swap(mpi.X, mpi.Y, f), LAMBDA g :
         With(ttls_mpi_safe_cond_swap(g.X, g.Y, f), LAMBDA h :
              Observed("obs_cond_swap",
                       [flag |-> f, X1 |-> g.X, Y1 |-> g.Y, r1 |-> g.r,
                        X |-> IF g.r = SUCCESS THEN h.X ELSE g.X,
                        Y |-> IF g.r = SUCCESS THEN h.Y ELSE g.Y,
                        r |-> IF g.r = SUCCESS THEN h.r ELSE g.r])))
    /\ OnlyMpi

\* X and Y are equal in value and sign
SameMpi(X, Y) == MpiVal(X) = MpiVal(Y) /\ X.s = Y.s

\* C35: for all X and Y and every flag byte ttls_mpi_safe_cond_assign()
\* leaves X equal to Y in value and sign when the flag is not 0 and as it was
\* when the flag is 0, and never changes Y; ttls_mpi_safe_cond_swap()
\* exchanges X and Y when the flag is not 0 and leaves both as they were when
\* it is 0, and a second call with the same flag restores both
C35_CondAssignSwap ==
    /\ mpi.op = "obs_cond_assign" /\ mpi.r = SUCCESS =>
         /\ SameMpi(mpi.X, IF mpi.flag # 0 THEN mpi.Y0 ELSE mpi.X0)
         /\ mpi.Y = mpi.Y0
    /\ mpi.op = "obs_cond_swap" /\ mpi.r = SUCCESS =>
         /\ SameMpi(mpi.X1, IF mpi.flag # 0 THEN mpi.Y0 ELSE mpi.X0)
         /\ SameMpi(mpi.Y1, IF mpi.flag # 0 THEN mpi.X0 ELSE mpi.Y0)
         /\ SameMpi(mpi.X, mpi.X0)
         /\ SameMpi(mpi.Y, mpi.Y0)
C35_Witness ==
    /\ mpi.op = "obs_cond_swap" /\ mpi.r = SUCCESS /\ mpi.flag = 255
    /\ mpi.X0.used = 1 /\ mpi.Y0.used = 3 /\ mpi.X0.s = 0 - 1
    /\ MpiVal(mpi.X1) = 256 /\ MpiVal(mpi.Y1) < 0

\* the bit positions of the observed ttls_mpi_set_bit(): in the first limb, at
\* limb ends, and behind the used limbs
ObsBitPositions == {0, 1, 3, 4, 7, 9, 13}

\* ttls_mpi_set_bit(X, pos, val), then ttls_mpi_get_bit() at pos and behind
\* the used limbs, ttls_mpi_bitlen() and ttls_mpi_lsb() of what it left
ObsSetBit ==
    /\ MayObserve
    /\ mpi.X.used <= MaxShiftLimbs
    /\ \E pos \in ObsBitPositions, val \in {0, 1} :
         With(ttls_mpi_set_bit(mpi.X, pos, val), LAMBDA g :
              Observed("obs_set_bit",
                       [pos |-> pos, val |-> val, X |-> g.X, r |-> g.r,
                        get |-> ttls_mpi_get_bit(g.X, pos),
                        behind |-> {ttls_mpi_get_bit(g.X, g.X.used * BIL + d) : d \in 0..BIL},
                        bitlen |-> ttls_mpi_bitlen(g.X),
                        lsb |-> ttls_mpi_lsb(g.X)]))
    /\ OnlyMpi

\* the bit k of the value v, the position of its highest set bit plus one and
\* the position of its lowest set bit (0 for v = 0)
BitOf(v, k) == (v \div Pow2(k)) % 2
RECURSIVE BitLength(_)
BitLength(v) == IF v = 0 THEN 0 ELSE 1 + BitLength(v \div 2)
RECURSIVE LowestBit(_)
LowestBit(v) == IF v = 0 \/ v % 2 = 1 THEN 0 ELSE 1 + LowestBit(v \div 2)

\* what ttls_mpi_set_bit() and ttls_mpi_get_bit() do to the bits of X
BitSet ==
    /\ mpi.val = 1 =>
         /\ mpi.get = 1
         /\ MpiAbs(mpi.X) = MpiAbs(mpi.X0)
                            + (1 - BitOf(MpiAbs(mpi.X0), mpi.pos)) * Pow2(mpi.pos)
    /\ mpi.val = 0 =>
         /\ mpi.get = 0
         /\ mpi.X.limbs = mpi.X0.limbs /\ mpi.X.used <= mpi.X0.used
         /\ MpiAbs(mpi.X) = MpiAbs(mpi.X0)
                            - BitOf(MpiAbs(mpi.X0), mpi.pos) * Pow2(mpi.pos)
    /\ mpi.behind = {0}
    /\ mpi.lsb = LowestBit(MpiAbs(mpi.X))

\* C36: after ttls_mpi_set_bit(X, k, 1) ttls_mpi_get_bit(X, k) is 1 and every
\* other bit is as before; ttls_mpi_set_bit(X, k, 0) never grows X and leaves
\* ttls_mpi_get_bit(X, k) = 0; ttls_mpi_get_bit() is 0 at every position from
\* used * BIL on; and for every X these operations leave ttls_mpi_bitlen(X) is
\* the position of the highest set bit plus one (0 for X = 0) and
\* ttls_mpi_lsb(X) the position of the lowest set bit (0 for X = 0); stated
\* for ttls_mpi_set_bit() on a canonical X
C36_Bits ==
    mpi.op = "obs_set_bit" /\ mpi.r = SUCCESS /\ Canonical(mpi.X0) =>
        BitSet /\ mpi.bitlen = BitLength(MpiAbs(mpi.X))

\* C36 without the bit length of an X whose top limb was cleared
C36_BitsTop ==
    mpi.op = "obs_set_bit" /\ mpi.r = SUCCESS =>
        /\ BitSet
        /\ P(mpi.X, mpi.X.used - 1) # 0 \/ MpiAbs(mpi.X) = 0
             => mpi.bitlen = BitLength(MpiAbs(mpi.X))
C36_TopWitness ==
    /\ mpi.op = "obs_set_bit" /\ mpi.r = SUCCESS /\ Canonical(mpi.X0)
    /\ mpi.val = 1 /\ mpi.pos = 13 /\ mpi.X0.used = 2 /\ mpi.X0.limbs = 3
    /\ P(mpi.X0, 2) = LimbMax /\ mpi.bitlen = 14 /\ mpi.lsb = 0

(***************************************************************************)
(* The transcript that the key derivation reads.                           *)
(***************************************************************************)
\* the step made derives the keys from the ClientKeyExchange
KeysDerivedNow ==
    /\ tls.state = "CLIENT_KEY_EXCHANGE"
    /\ ~tls.keys_derived
    /\ tls'.keys_derived

\* the transcript that ttls_derive_keys() read ends with the message in
\* flight, whole and with its header
HashedToTheEnd(t, m) ==
    /\ Len(t.session_hash) > 0
    /\ t.session_hash[Len(t.session_hash)] =
           [type |-> m.type, hdr |-> TRUE, from |-> 0, to |-> Len(m.body)]

\* C37: on every path of ttls_parse_client_key_exchange() that reaches the
\* key derivation, the message having come in one slice or the call having
\* delivered the last chunk, ttls_update_checksum() for the last bytes of the
\* ClientKeyExchange is called before ttls_derive_keys(), and a chunk that is
\* not the last one never derives the keys
C37_ChecksumBeforeKeys ==
    [][/\ KeysDerivedNow =>
            /\ inmsg'.type = "ClientKeyExchange"
            /\ inmsg'.pos = Len(inmsg'.body)
            /\ HashedToTheEnd(tls', inmsg')
       /\ tls'.r = T_POSTPONE => tls'.keys_derived = tls.keys_derived]_vars
C37_Witness ==
    /\ tls.keys_derived /\ ~tls.resume
    /\ tls.state = "CLIENT_CHANGE_CIPHER_SPEC"
    /\ inmsg.type = "ClientKeyExchange" /\ inmsg.pos = Len(inmsg.body)
    /\ ~inmsg.one_byte /\ tls.rlen = Len(inmsg.body)
    /\ HashedToTheEnd(tls, inmsg)

(***************************************************************************)
(* The references on the page the server's messages are written into.      *)
(***************************************************************************)
\* the states whose messages ttls_handshake_server_hello() and
\* ttls_handshake_finished() write
WriterStates ==
    {"SERVER_HELLO", "SERVER_CERTIFICATE", "SERVER_KEY_EXCHANGE",
     "CERTIFICATE_REQUEST", "SERVER_HELLO_DONE", "SERVER_CHANGE_CIPHER_SPEC",
     "SERVER_FINISHED"}

\* one of the two writers got its page, built a list and returned an error
\* without handing the list to __ttls_send_record()
WriterFailed ==
    /\ tls.state \in WriterStates
    /\ Fatal(tls.r) /\ ~tls.crashed
    /\ inp.fail # "pg_skb_alloc"
    /\ Len(tls.log) > 0 /\ tls.log[Len(tls.log)][1] # "send"

\* C38: whenever ttls_handshake_server_hello() or ttls_handshake_finished()
\* returns an error every reference taken on the output page, the one of the
\* allocation and one get_page() per message appended to the scatter-gather
\* list, has been released exactly once, and the list never has more than
\* MAX_SKB_FRAGS entries
C38_PageReferences ==
    /\ WriterFailed => tls.pg = 0
    /\ Len(tls.sgt) <= MAX_SKB_FRAGS

\* C38 for the list alone, and no reference released that was not taken
C38_ListBounded ==
    /\ Len(tls.sgt) <= MAX_SKB_FRAGS
    /\ tls.pg >= 0

(***************************************************************************)
(* The state after the ServerHello block.                                  *)
(***************************************************************************)
\* the message of the type was written in this handshake
Written(type) == \E k \in 1..Len(tls.log) : tls.log[k] = <<"tx", type>>

\* ttls_handshake_server_hello() has just handed its list, ServerHelloDone
\* the last message of it, to __ttls_send_record()
BlockDone ==
    /\ Written("ServerHelloDone")
    /\ tls.log[Len(tls.log)][1] = "send"
    /\ tls.wire[Len(tls.wire)].msgs # <<>>
    /\ tls.wire[Len(tls.wire)].msgs[Len(tls.wire[Len(tls.wire)].msgs)].type
           = "ServerHelloDone"

\* C39: the state machine enters CLIENT_CERTIFICATE only in a handshake in
\* which a CertificateRequest was written in the ServerHello block; when none
\* was written the state after ServerHelloDone is CLIENT_KEY_EXCHANGE
C39_CertificateRequested ==
    /\ tls.state = "CLIENT_CERTIFICATE" => Written("CertificateRequest")
    /\ BlockDone /\ ~Written("CertificateRequest")
         => tls.state = "CLIENT_KEY_EXCHANGE"

\* C39 by the configuration: the state after ServerHelloDone is
\* CLIENT_KEY_EXCHANGE when no client authentication is configured and
\* CLIENT_CERTIFICATE when it is
C39_ByAuthMode ==
    BlockDone =>
        tls.state = IF \/ /\ tls.sni_authmode = "TTLS_VERIFY_UNSET"
                          /\ conf.authmode = "TTLS_VERIFY_NONE"
                       \/ tls.sni_authmode = "TTLS_VERIFY_NONE"
                    THEN "CLIENT_KEY_EXCHANGE" ELSE "CLIENT_CERTIFICATE"
C39_AuthWitness ==
    /\ BlockDone /\ tls.state = "CLIENT_CERTIFICATE"
    /\ conf.authmode # "TTLS_VERIFY_NONE" /\ tls.r = T_OK

(***************************************************************************)
(* ClientHellos with several session_ticket extensions.                    *)
(***************************************************************************)
\* the most session_ticket extensions of a ClientHello
MaxTickets == 3

TicketKinds == {"noticket", "ticket", "badticket"}

\* hellos with one to MaxTickets session_ticket extensions, empty, good and
\* bad ones in every order, followed by another extension
ManyTicketHellos ==
    {XHello(<<TLS_RSA_WITH_AES_128_GCM_SHA256>>,
            [i \in 1..Len(ks) |-> ExtByKind(ks[i])] \o <<ExtByKind("sig")>>) :
        ks \in UNION {[1..n -> TicketKinds] : n \in 1..MaxTickets}}

InitTicket ==
    /\ conf \in ExtConfs
    /\ hello \in ManyTicketHellos
    /\ tls = InitTls
    /\ inmsg = [type |-> "none", body |-> <<>>, pos |-> 0, seq |-> 0,
                one_byte |-> TRUE]
    /\ inp = NoInput
    /\ closed = FALSE
    /\ mpi = NoMpi

NextTicket == SendFirst \/ RecvExt

SpecTicket == InitTicket /\ [][NextTicket]_vars

\* the session_ticket extensions of the hello
TicketsOf(h) ==
    SelectSeq(HelloExts(h), LAMBDA x : x.type = TTLS_TLS_EXT_SESSION_TICKET)

\* the whole ClientHello was handed to the state machine and accepted
HelloProcessed ==
    InFirstHello /\ inmsg.pos = Len(hello) /\ tls.state # "CLIENT_HELLO"

\* C40: for any number and order of session_ticket extensions in a
\* ClientHello hs.resume and hs.new_session_ticket are never both set once
\* the ClientHello is processed: a session resumed from a ticket never
\* schedules a NewSessionTicket
C40_ResumeOrNewTicket ==
    HelloProcessed => ~(tls.resume /\ tls.new_session_ticket)

\* C40 for a ClientHello with one session_ticket extension
C40_OneTicket ==
    HelloProcessed /\ Len(TicketsOf(hello)) = 1
        => ~(tls.resume /\ tls.new_session_ticket)
C40_OneTicketWitness ==
    /\ HelloProcessed /\ Len(TicketsOf(hello)) = 1 /\ conf.f_ticket
    /\ tls.resume /\ ~tls.new_session_ticket /\ inmsg.one_byte

\* the calls made before the observed one: one call of the engine on the
\* MPIs of InitMpi
OpBefore == mpi.n = 0 /\ NextMpi

NextOps ==
    \/ OpBefore \/ OpCompare \/ ObsShiftL \/ ObsShiftR \/ ObsWriteRead \/ ObsRead
    \/ ObsCondAssign \/ ObsCondSwap \/ ObsSetBit
SpecOps == InitMpi /\ [][NextOps]_vars

====
